---- MODULE Spec2Model ----
(***************************************************************************)
(* Credit ledger and redeem-code registry of osint-father-bot              *)
(* (src/database.py), as a state machine over the three tables the ledger  *)
(* owns: users, redeem_codes and redeem_logs.                              *)
(*                                                                         *)
(* A table is a set (users, redeem_codes) or a bag (redeem_logs) of rows;  *)
(* an SQL statement is an operator from a database to a database.  An      *)
(* UPDATE ... WHERE rewrites the matching rows and is a no-op when none    *)
(* match; a PRIMARY KEY or UNIQUE constraint is what the INSERT operators  *)
(* check.  A nullable column holds NULL ({}) or Some(v) ({v}).             *)
(*                                                                         *)
(* Every await of a coroutine is a point where another coroutine (or, on   *)
(* PostgreSQL, another connection) may run, so a function with several     *)
(* statements outside one transaction is one action per statement group.   *)
(***************************************************************************)
EXTENDS Integers, Sequences, FiniteSets, Bags, TLC

\* ---------------------------------------------------------------- bounds
MaxCalls == 2     \* redeem_code_db invocations in one behaviour
MaxAdds == 2      \* add_user invocations in flight at once
MaxStarts == 2    \* /start commands in one behaviour
MaxOps == 2       \* credit adjustments (update_credits, bulk, reset) in one behaviour

MaxInputs == 2    \* text messages handled by handle_inputs in one behaviour
Calls == 1..MaxCalls
Inputs == 1..MaxInputs
Adds == 1..MaxAdds
Starts == 1..MaxStarts

\* the values the operations are called with
UserIds == {1, 2}
Codes == {"WELCOME50"}
Usernames == {"alice", "bob"}
Referrers == {{}, {1}}   \* no referrer, account 1
Amounts == {2}
Minutes == 0..2   \* the clock's readings
NonNegAmounts == {0, 2}   \* code amounts that are not negative
SignedAmounts == {-1, 2}   \* code amounts as /gencode takes them: any int
Deltas == {-6, 0, 3}       \* credit adjustments
IdLists == {<<1, 2>>, <<2, 2>>}   \* user_ids of a bulk gift
Days == {0, 1}   \* the number of days sent after /backup

\* credits given to a new account (add_user)
DEFAULT_CREDITS == 5

\* credits given to the referrer of a new account (start_command)
REFERRAL_BONUS == 3

NULL == {}
Some(v) == {v}
Val(x) == CHOOSE v \in x : TRUE

\* code definitions (max_uses, expiry_minutes): one use and no expiry, two
\* uses and one minute
CodeDefs == {<<1, NULL>>, <<2, Some(1)>>}

\* a custom code and a code as /gencode names it
CleanCodes == {"WELCOME50", "PRO-A1B2C3"}
RoundTripAmounts == {2, 50}
RoundTripUses == {1, 10}

\* single-use code definitions, without expiry and with one minute
\* (PrecedenceDefs); code definitions with every kind of expiry_minutes: none, zero, negative,
\* one minute
PrecedenceDefs == {<<1, NULL>>, <<1, Some(1)>>}
ExpiryDefs == {<<1, NULL>>, <<1, Some(0)>>, <<2, Some(-1)>>, <<2, Some(1)>>}

VARIABLES
    USING_SQLITE,   \* which backend branch every function takes
    users,          \* table users: set of rows, PRIMARY KEY user_id
    redeem_codes,   \* table redeem_codes: set of rows, PRIMARY KEY code
    redeem_logs,    \* table redeem_logs: bag of rows, UNIQUE(user_id, code)
    now,            \* datetime.now(), in minutes
    calls,          \* redeem_code_db invocations: position, locals, result
    adds,           \* add_user invocations: position and arguments
    claimed,        \* history: (user, code) pairs granted since the user's last delete_user
    starts,         \* start_command handlers: position, locals, outcome
    history,        \* history: the ledger operations performed so far
    gencode,        \* generate_random_code handler: position, arguments, parsed expiry
    cleaner,        \* clean_expired_cmd handler: position, codes still to delete
    admins,         \* table admins: the user ids that have a row
    fsm,            \* FSM storage: the Form state of each sender
    inputs          \* handle_inputs invocations: position, locals, outcome

vars == <<USING_SQLITE, users, redeem_codes, redeem_logs, now, calls, adds, claimed,
          starts, history, gencode, cleaner, admins, fsm, inputs>>

\* ---------------------------------------------------------------- tables
DB(u, c, l) == [users |-> u, redeem_codes |-> c, redeem_logs |-> l]

CurrentDB == DB(users, redeem_codes, redeem_logs)

HasUser(tbl, uid) == \E r \in tbl : r.user_id = uid
UserRow(tbl, uid) == CHOOSE r \in tbl : r.user_id = uid
UserRows(tbl, uid) == {r \in tbl : r.user_id = uid}

HasCode(tbl, code) == \E r \in tbl : r.code = code
CodeRow(tbl, code) == CHOOSE r \in tbl : r.code = code

LogRow(uid, code) == [user_id |-> uid, code |-> code]

\* number of redeem_logs rows of one (user, code) pair, of one code
LogCount(logs, uid, code) == CopiesIn(LogRow(uid, code), logs)

RECURSIVE SumCopies(_, _)
SumCopies(logs, rows) ==
    IF rows = {} THEN 0
    ELSE LET r == CHOOSE x \in rows : TRUE
         IN  CopiesIn(r, logs) + SumCopies(logs, rows \ {r})

CodeLogCount(logs, code) == SumCopies(logs, {r \in BagToSet(logs) : r.code = code})

\* get_code_usage_stats(code): amount, max_uses, current_uses of the code and
\* COUNT(DISTINCT rl.user_id) over its redeem_logs rows; None (NULL) when the
\* code has no row
get_code_usage_stats(codes, logs, code) ==
    IF ~HasCode(codes, code) THEN NULL
    ELSE Some([amount |-> CodeRow(codes, code).amount,
               max_uses |-> CodeRow(codes, code).max_uses,
               current_uses |-> CodeRow(codes, code).current_uses,
               unique_users |-> Cardinality({r.user_id : r \in {x \in BagToSet(logs) :
                                                                 x.code = code}})])

\* ---------------------------------------------------------------- statements
\* (variant for C24: the claim that does not count itself)
IncrementUsesSkipped(tbl, code) == tbl

\* UPDATE redeem_codes SET current_uses = current_uses + 1 WHERE code = ?
IncrementUses(tbl, code) ==
    {IF r.code = code THEN [r EXCEPT !.current_uses = @ + 1] ELSE r : r \in tbl}

\* UPDATE users SET credits = credits + ? WHERE user_id = ?
AddCredits(tbl, uid, amount) ==
    {IF r.user_id = uid THEN [r EXCEPT !.credits = @ + amount] ELSE r : r \in tbl}

\* (variant for C35: the grant that does not reach total_earned)
AddEarnedSkipped(tbl, uid, amount) == tbl

\* UPDATE users SET total_earned = total_earned + ? WHERE user_id = ?
AddEarned(tbl, uid, amount) ==
    {IF r.user_id = uid THEN [r EXCEPT !.total_earned = @ + amount] ELSE r : r \in tbl}

\* (variant for C4: the INSERT without the UNIQUE constraint behind it)
InsertLogNoUnique(logs, uid, code) ==
    logs (+) SetToBag({LogRow(uid, code)})

\* INSERT OR IGNORE INTO redeem_logs / INSERT ... ON CONFLICT DO NOTHING,
\* against UNIQUE(user_id, code)
InsertLogIgnore(logs, uid, code) ==
    IF BagIn(LogRow(uid, code), logs) THEN logs
    ELSE logs (+) SetToBag({LogRow(uid, code)})

\* The statements of the claim's write transaction, in order.  SQLite credits
\* the balance and the lifetime counter in two UPDATEs, PostgreSQL in one.
RedeemStatements(sqlite) ==
    IF sqlite THEN <<"inc_uses", "add_credits", "add_earned", "insert_log">>
    ELSE <<"inc_uses", "add_credits_earned", "insert_log">>

ApplyStatement(s, db, uid, code, amount) ==
    CASE s = "inc_uses" ->
            [db EXCEPT !.redeem_codes = IncrementUses(@, code)]
      [] s = "add_credits" ->
            [db EXCEPT !.users = AddCredits(@, uid, amount)]
      [] s = "add_earned" ->
            [db EXCEPT !.users = AddEarned(@, uid, amount)]
      [] s = "add_credits_earned" ->
            [db EXCEPT !.users = AddEarned(AddCredits(@, uid, amount), uid, amount)]
      [] s = "insert_log" ->
            [db EXCEPT !.redeem_logs = InsertLogIgnore(@, uid, code)]

\* the database after the first n statements of the write transaction
RECURSIVE RunStatements(_, _, _, _, _, _)
RunStatements(n, stmts, db, uid, code, amount) ==
    IF n = 0 THEN db
    ELSE ApplyStatement(stmts[n],
                        RunStatements(n - 1, stmts, db, uid, code, amount),
                        uid, code, amount)

\* (variant for C9: the failure path without its ROLLBACK)
RollbackMissing(before, partial) == partial

\* ROLLBACK / leaving conn.transaction() by an exception: the database is the
\* one the transaction started from, whatever it had written.
Rollback(before, partial) == before

\* (variant for C23: the expiry test without `expiry_minutes > 0`)
IsExpiredNoPositiveTest(row, t) ==
    /\ row.expiry_minutes # NULL
    /\ t > row.created_date + Val(row.expiry_minutes)

\* expiry test of redeem_code_db
IsExpired(row, t) ==
    /\ row.expiry_minutes # NULL
    /\ Val(row.expiry_minutes) > 0
    /\ t > row.created_date + Val(row.expiry_minutes)

\* ---------------------------------------------------------------- results
Granted(amount) == [tag |-> "granted", amount |-> amount]
Tagged(t) == [tag |-> t, amount |-> 0]
NoResult == Tagged("none")

IdleCall == [pc |-> "idle", user_id |-> 0, code |-> "", amount |-> 0, result |-> NoResult]
IdleAdd == [pc |-> "idle", user_id |-> 0, username |-> "", referrer_id |-> NULL,
            result |-> "none"]

\* command.args of /start: absent, "ref_<n>", or "ref_" followed by no integer
NoArgs == [kind |-> "none", n |-> 0]
Ref(n) == [kind |-> "ref_int", n |-> n]
BadRef == [kind |-> "ref_bad", n |-> 0]
StartArgs == {NoArgs, BadRef} \cup {Ref(n) : n \in UserIds}

IdleStart == [pc |-> "idle", user_id |-> 0, args |-> NoArgs, referrer_id |-> NULL,
              credited |-> FALSE, result |-> "none"]

\* ---------------------------------------------------------------- parse_time_string
\* A str is a sequence of one-character strings.  DigitVal is the value of
\* the decimal digits the inputs are written with: these match \d, satisfy
\* str.isdigit and are read by int().  SUPERSCRIPT_TWO (U+00B2) satisfies
\* str.isdigit only: \d does not match it and int() raises ValueError on it.
DigitVal == ("0" :> 0) @@ ("1" :> 1) @@ ("3" :> 3)
SUPERSCRIPT_TWO == "sup2"
LowerOf == ("H" :> "h") @@ ("M" :> "m") @@ ("N" :> "n") @@ ("O" :> "o") @@ ("E" :> "e")
           @@ ("A" :> "a") @@ ("B" :> "b") @@ ("C" :> "c")

MaxStrLen == 4
TimeChars == DOMAIN DigitVal \cup {"h", "m", "H", "-", SUPERSCRIPT_TWO}
NoneStrings == {<<"n", "o", "n", "e">>, <<"N", "O", "N", "E">>, <<"N", "o", "n", "e">>}
TimeStrings == UNION {[1..n -> TimeChars] : n \in 0..MaxStrLen} \cup NoneStrings

\* str.lower()
lower(s) == [i \in 1..Len(s) |-> IF s[i] \in DOMAIN LowerOf THEN LowerOf[s[i]] ELSE s[i]]

\* (variant for C32: the code taken as typed)
upper_as_typed(s) == s

\* str.upper() and str.strip() (of the blank)
UpperOf == ("a" :> "A") @@ ("b" :> "B") @@ ("c" :> "C")
upper(s) == [i \in 1..Len(s) |-> IF s[i] \in DOMAIN UpperOf THEN UpperOf[s[i]] ELSE s[i]]
strip(s) ==
    LET kept == {i \in 1..Len(s) : s[i] # " "}
    IN  IF kept = {} THEN <<>>
        ELSE SubSeq(s, CHOOSE i \in kept : \A j \in kept : i <= j,
                       CHOOSE i \in kept : \A j \in kept : j <= i)

\* str.isdigit(): non-empty and every character a digit
isdigit(s) ==
    s # <<>> /\ \A i \in 1..Len(s) : s[i] \in DOMAIN DigitVal \cup {SUPERSCRIPT_TWO}

\* int(s) of a string of decimal digits
RECURSIVE int(_)
int(s) ==
    IF s = <<>> THEN 0
    ELSE 10 * int(SubSeq(s, 1, Len(s) - 1)) + DigitVal[s[Len(s)]]

\* the index after the longest run of \d characters that starts at i
RunEnd(s, i) ==
    CHOOSE j \in i..(Len(s) + 1) :
        /\ \A k \in i..(j - 1) : s[k] \in DOMAIN DigitVal
        /\ j = Len(s) + 1 \/ s[j] \notin DOMAIN DigitVal

\* re.search(r'(\d+)<unit>', s).group(1): the leftmost position where a run of
\* digits is followed by the unit (\d+ is greedy, and a shorter run ends
\* before a digit, never before the unit); NULL when there is no match
re_search(s, unit) ==
    LET found == {i \in 1..Len(s) : /\ s[i] \in DOMAIN DigitVal
                                    /\ RunEnd(s, i) <= Len(s)
                                    /\ s[RunEnd(s, i)] = unit}
    IN  IF found = {} THEN NULL
        ELSE LET i == CHOOSE m \in found : \A o \in found : m <= o
             IN  Some(SubSeq(s, i, RunEnd(s, i) - 1))

Returned(value) == [tag |-> "returned", value |-> value]
Raised == [tag |-> "raised", value |-> NULL]

\* variant: the function returns total_minutes without the `> 0` test
parse_time_string_keep_zero(time_str) ==
    IF time_str = <<>> \/ lower(time_str) = <<"n", "o", "n", "e">>
    THEN Returned(NULL)
    ELSE LET s == lower(time_str)
             hour_match == re_search(s, "h")
             minute_match == re_search(s, "m")
             hours == IF hour_match # NULL THEN int(Val(hour_match)) * 60 ELSE 0
             minutes == IF minute_match # NULL THEN int(Val(minute_match)) ELSE 0
         IN  IF hour_match = NULL /\ minute_match = NULL /\ isdigit(s)
             THEN IF SUPERSCRIPT_TWO \in {s[i] : i \in 1..Len(s)}
                  THEN Raised
                  ELSE Returned(Some(int(s)))
             ELSE Returned(Some(hours + minutes))

parse_time_string(time_str) ==
    IF time_str = <<>> \/ lower(time_str) = <<"n", "o", "n", "e">>
    THEN Returned(NULL)
    ELSE LET s == lower(time_str)
             hour_match == re_search(s, "h")
             minute_match == re_search(s, "m")
             hours == IF hour_match # NULL THEN int(Val(hour_match)) * 60 ELSE 0
             minutes == IF minute_match # NULL THEN int(Val(minute_match)) ELSE 0
             total_minutes(t) == IF t > 0 THEN Some(t) ELSE NULL
         IN  IF hour_match = NULL /\ minute_match = NULL /\ isdigit(s)
             THEN IF SUPERSCRIPT_TWO \in {s[i] : i \in 1..Len(s)}
                  THEN Raised
                  ELSE Returned(total_minutes(int(s)))
             ELSE Returned(total_minutes(hours + minutes))

\* /gencode <amount> <uses> [<time>] and the custom-code form: the handler
\* before it has read its arguments.  cmd is "gencode", "custom" or, for a
\* call of parse_time_string by itself, "call"; code is the name the code is
\* stored under; time_str is the time argument as a sequence of characters,
\* empty when the command has none (split() yields no empty token); result
\* is what parse_time_string returned
IdleGenCode == [pc |-> "idle", cmd |-> "none", code |-> <<>>, amt |-> 0, uses |-> 0,
                time_str |-> <<>>, result |-> Returned(NULL)]

\* secrets.token_hex(3), and the first word of a custom-code message
HexTokens == {<<"a", "1", "b", "2", "c", "3">>}
CustomNames == {<<"a", "B">>}

\* code names and redeem submissions that differ in case and in blanks
CaseNames == UNION {[1..n -> {"a", "A"}] : n \in 1..2}
CaseTexts == UNION {[1..n -> {"a", "A", " "}] : n \in 1..2}

\* /cleanexpired: the handler before get_expired_codes; `expired` holds the
\* codes of the fetched rows not yet deleted; `codes_then` and `fetched_at`
\* are history, the table the fetch read and the clock reading it read it at
IdleCleaner == [pc |-> "idle", expired |-> {}, codes_then |-> {}, fetched_at |-> 0]

\* handle_inputs: the handler before its ban check.  text is message.text,
\* arg the integer it starts with and ids the integers after it, where the
\* branch reads them; state, code,
\* amount, result, credits, admin_level and new_balance are the handler's
\* locals (current_state; code, and amount and result of redeem_code_db;
\* user[2] and admin_level of process_api_call; new_balance); outcome tells
\* how the handler ended
IdleInput == [pc |-> "idle", user_id |-> 0, text |-> <<>>, arg |-> 0, state |-> "none",
              ids |-> <<>>, code |-> <<>>, amount |-> 0, result |-> NoResult,
              credits |-> NULL, admin_level |-> FALSE, new_balance |-> 0,
              outcome |-> "none"]

\* history of the administrative operations: how many were issued, the name
\* of the latest, the sum of the deltas each account was to receive from the
\* ones that returned, the accounts reset_user_credits was called on, and the
\* failures (operation, failing statement, argument) that were raised
Failure(op, k, arg) == [op |-> op, at |-> k, arg |-> arg]

NoHistory == [ops |-> 0, last |-> "none", deltas |-> [uid \in UserIds |-> 0],
              resets |-> {}, failures |-> {}]

\* ---------------------------------------------------------------- add_user
NewUser(uid, username, referrer_id, t) ==
    [user_id |-> uid, username |-> username, credits |-> DEFAULT_CREDITS,
     joined_date |-> t, referrer_id |-> referrer_id, is_banned |-> 0,
     total_earned |-> 0, last_active |-> t]

\* (variant for C10: the INSERT without the PRIMARY KEY behind it)
InsertUserNoKey(tbl, row) == tbl \cup {row}

\* INSERT INTO users against PRIMARY KEY user_id: a duplicate key raises and
\* the table is as it was.
InsertUser(tbl, row) ==
    IF HasUser(tbl, row.user_id) THEN tbl ELSE tbl \cup {row}

\* add_user, up to its SELECT: returns (None) at once when the row exists.
AddUserCheck(a, uid, username, referrer_id) ==
    /\ adds[a].pc = "idle"
    /\ adds' = [adds EXCEPT ![a] =
                    IF HasUser(users, uid)
                    THEN IdleAdd
                    ELSE [IdleAdd EXCEPT !.pc = "insert", !.user_id = uid,
                                         !.username = username,
                                         !.referrer_id = referrer_id]]
    /\ UNCHANGED <<USING_SQLITE, users, redeem_codes, redeem_logs, now, calls, claimed,
                   starts, history,
                   gencode, cleaner, admins, fsm, inputs>>

\* add_user, its INSERT (and commit): the row is written and add_user returns
\* None, or the duplicate key raises out of add_user (the slot then keeps the
\* arguments that failed).
AddUserInsert(a) ==
    /\ adds[a].pc = "insert"
    /\ users' = InsertUser(users, NewUser(adds[a].user_id, adds[a].username,
                                          adds[a].referrer_id, now))
    /\ adds' = [adds EXCEPT ![a] =
                    IF HasUser(users, adds[a].user_id)
                    THEN [@ EXCEPT !.pc = "idle", !.result = "raised"]
                    ELSE IdleAdd]
    /\ UNCHANGED <<USING_SQLITE, redeem_codes, redeem_logs, now, calls, claimed,
                   starts, history,
                   gencode, cleaner, admins, fsm, inputs>>

\* ---------------------------------------------------------------- redeem codes
NewCode(code, amount, max_uses, expiry_minutes, t) ==
    [code |-> code, amount |-> amount, max_uses |-> max_uses, current_uses |-> 0,
     expiry_minutes |-> expiry_minutes, created_date |-> t, is_active |-> 1]

\* SQLite: INSERT OR REPLACE deletes the row of the same key and inserts the
\* new one, whose current_uses is the column default.
InsertOrReplaceCode(tbl, row) ==
    {r \in tbl : r.code # row.code} \cup {row}

\* PostgreSQL: ON CONFLICT (code) DO UPDATE sets the five named columns and
\* leaves current_uses.
UpsertCode(tbl, row) ==
    IF HasCode(tbl, row.code)
    THEN {IF r.code = row.code
          THEN [r EXCEPT !.amount = row.amount, !.max_uses = row.max_uses,
                         !.expiry_minutes = row.expiry_minutes,
                         !.created_date = row.created_date,
                         !.is_active = row.is_active]
          ELSE r : r \in tbl}
    ELSE tbl \cup {row}

create_redeem_code(code, amount, max_uses, expiry_minutes) ==
    /\ redeem_codes' =
          IF USING_SQLITE
          THEN InsertOrReplaceCode(redeem_codes,
                                   NewCode(code, amount, max_uses, expiry_minutes, now))
          ELSE UpsertCode(redeem_codes,
                          NewCode(code, amount, max_uses, expiry_minutes, now))
    /\ UNCHANGED <<USING_SQLITE, users, redeem_logs, now, calls, adds, claimed,
                   starts, history,
                   gencode, cleaner, admins, fsm, inputs>>

deactivate_code(code) ==
    /\ redeem_codes' = {IF r.code = code THEN [r EXCEPT !.is_active = 0] ELSE r
                        : r \in redeem_codes}
    /\ UNCHANGED <<USING_SQLITE, users, redeem_logs, now, calls, adds, claimed,
                   starts, history,
                   gencode, cleaner, admins, fsm, inputs>>

\* (variant for C28: the DELETE taking the code's redeem_logs rows with it)
delete_redeem_code_cascade(code) ==
    /\ redeem_codes' = {r \in redeem_codes : r.code # code}
    /\ redeem_logs' = [r \in {x \in DOMAIN redeem_logs : x.code # code} |-> redeem_logs[r]]
    /\ UNCHANGED <<USING_SQLITE, users, now, calls, adds, claimed, starts, history,
                   gencode, cleaner, admins, fsm, inputs>>

\* DELETE FROM redeem_codes WHERE code = ?
delete_redeem_code(code) ==
    /\ redeem_codes' = {r \in redeem_codes : r.code # code}
    /\ UNCHANGED <<USING_SQLITE, users, redeem_logs, now, calls, adds, claimed,
                   starts, history,
                   gencode, cleaner, admins, fsm, inputs>>

\* get_expired_codes at clock reading t: the rows its WHERE clause selects
get_expired_codes(tbl, t) ==
    {r \in tbl : /\ r.is_active = 1
                 /\ r.expiry_minutes # NULL
                 /\ Val(r.expiry_minutes) > 0
                 /\ r.created_date + Val(r.expiry_minutes) < t}

\* ---------------------------------------------------------------- redeem_code_db
\* (variant for C31: the expiry test placed before the use-limit test)
CheckCodeExpiredFirst(tbl, code, t) ==
    IF ~HasCode(tbl, code) THEN "invalid"
    ELSE LET data == CodeRow(tbl, code)
         IN  IF data.is_active = 0 THEN "inactive"
             ELSE IF IsExpired(data, t) THEN "expired"
             ELSE IF data.current_uses >= data.max_uses THEN "limit_reached"
             ELSE "ok"

\* The checks on the code row read by the second SELECT, in the code's order.
CheckCode(tbl, code, t) ==
    IF ~HasCode(tbl, code) THEN "invalid"
    ELSE LET data == CodeRow(tbl, code)
         IN  IF data.is_active = 0 THEN "inactive"
             ELSE IF data.current_uses >= data.max_uses THEN "limit_reached"
             ELSE IF IsExpired(data, t) THEN "expired"
             ELSE "ok"

\* First SELECT: has this user a redeem_logs row for this code?  (Invocations
\* take the slots of calls in order: which slot a call gets is immaterial.)
RedeemCheckClaimed(p, uid, code) ==
    /\ calls[p].pc = "idle"
    /\ \A q \in Calls : q < p => calls[q].pc # "idle"
    /\ calls' = [calls EXCEPT ![p] =
                    IF BagIn(LogRow(uid, code), redeem_logs)
                    THEN [IdleCall EXCEPT !.pc = "done", !.user_id = uid, !.code = code,
                                          !.result = Tagged("already_claimed")]
                    ELSE [IdleCall EXCEPT !.pc = "read_code", !.user_id = uid,
                                          !.code = code]]
    /\ UNCHANGED <<USING_SQLITE, users, redeem_codes, redeem_logs, now, adds, claimed,
                   starts, history,
                   gencode, cleaner, admins, fsm, inputs>>

\* Second SELECT and the checks on what it returned.
RedeemReadCode(p) ==
    /\ calls[p].pc = "read_code"
    /\ LET verdict == CheckCode(redeem_codes, calls[p].code, now)
       IN  calls' = [calls EXCEPT ![p] =
                        IF verdict = "ok"
                        THEN [@ EXCEPT !.pc = "write",
                                       !.amount = CodeRow(redeem_codes, calls[p].code).amount]
                        ELSE [@ EXCEPT !.pc = "done", !.result = Tagged(verdict)]]
    /\ UNCHANGED <<USING_SQLITE, users, redeem_codes, redeem_logs, now, adds, claimed,
                   starts, history,
                   gencode, cleaner, admins, fsm, inputs>>

\* The write transaction, committed: every statement applied, the amount returned.
RedeemCommit(p) ==
    /\ calls[p].pc = "write"
    /\ LET stmts == RedeemStatements(USING_SQLITE)
           db == RunStatements(Len(stmts), stmts, CurrentDB,
                               calls[p].user_id, calls[p].code, calls[p].amount)
       IN  /\ users' = db.users
           /\ redeem_codes' = db.redeem_codes
           /\ redeem_logs' = db.redeem_logs
    /\ calls' = [calls EXCEPT ![p].pc = "done", ![p].amount = 0,
                              ![p].result = Granted(calls[p].amount)]
    /\ claimed' = claimed \cup {<<calls[p].user_id, calls[p].code>>}
    /\ UNCHANGED <<USING_SQLITE, now, adds,
                   starts, history,
                   gencode, cleaner, admins, fsm, inputs>>

\* The write transaction, failing at statement k (k past the last statement:
\* at the commit).  SQLite: except -> ROLLBACK -> return "error: ...";
\* PostgreSQL: conn.transaction() rolls back and the exception leaves the call.
RedeemFail(p, k) ==
    /\ calls[p].pc = "write"
    /\ LET stmts == RedeemStatements(USING_SQLITE)
           partial == RunStatements(k - 1, stmts, CurrentDB,
                                    calls[p].user_id, calls[p].code, calls[p].amount)
           db == Rollback(CurrentDB, partial)
       IN  /\ k \in 1..(Len(stmts) + 1)
           /\ users' = db.users
           /\ redeem_codes' = db.redeem_codes
           /\ redeem_logs' = db.redeem_logs
    /\ calls' = [calls EXCEPT ![p].pc = "done", ![p].amount = 0,
                              ![p].result = IF USING_SQLITE THEN Tagged("error")
                                            ELSE Tagged("raised")]
    /\ UNCHANGED <<USING_SQLITE, now, adds, claimed,
                   starts, history,
                   gencode, cleaner, admins, fsm, inputs>>

\* ---------------------------------------------------------------- delete_user
\* (variant for C18: the referrer_id columns left as they are)
NullReferrersSkipped(tbl, uid) == tbl

\* UPDATE users SET referrer_id = NULL WHERE referrer_id = ?
NullReferrers(tbl, uid) ==
    {IF r.referrer_id = Some(uid) THEN [r EXCEPT !.referrer_id = NULL] ELSE r
     : r \in tbl}

\* the statements of delete_user, in the order they run
DeleteStatements == <<"delete_users_row", "delete_redeem_logs", "null_referrers">>

ApplyDeleteStatement(s, db, uid) ==
    CASE s = "delete_users_row" ->
            [db EXCEPT !.users = {x \in @ : x.user_id # uid}]
      [] s = "delete_redeem_logs" ->
            [db EXCEPT !.redeem_logs = [r \in {x \in DOMAIN @ : x.user_id # uid} |-> @[r]]]
      [] s = "null_referrers" ->
            [db EXCEPT !.users = NullReferrers(@, uid)]

\* the first n statements of delete_user
RECURSIVE RunDeleteStatements(_, _, _)
RunDeleteStatements(n, db, uid) ==
    IF n = 0 THEN db
    ELSE ApplyDeleteStatement(DeleteStatements[n], RunDeleteStatements(n - 1, db, uid), uid)

\* DELETE FROM users; DELETE FROM redeem_logs; UPDATE users SET referrer_id = NULL
DeleteUserRows(db, uid) == RunDeleteStatements(Len(DeleteStatements), db, uid)

\* (variant for C19: the statements before the failing one stay written)
DeleteAbortKeepsPartial(before, partial) == partial

\* delete_user left by an exception.  SQLite: the three statements run in the
\* transaction the connection opened before the first DELETE, and the
\* connection is closed without db.commit(); PostgreSQL: conn.transaction()
\* rolls back.
DeleteAbort(before, partial) == before

delete_user(uid) ==
    /\ LET db == DeleteUserRows(CurrentDB, uid)
       IN  /\ users' = db.users
           /\ redeem_logs' = db.redeem_logs
    /\ claimed' = {pr \in claimed : pr[1] # uid}
    /\ UNCHANGED <<USING_SQLITE, redeem_codes, now, calls, adds,
                   starts, history,
                   gencode, cleaner, admins, fsm, inputs>>

\* delete_user failing at statement k (k past the last one: at the commit);
\* the exception leaves the function
DeleteUserFail(uid, k) ==
    /\ history.ops < MaxOps
    /\ k \in 1..(Len(DeleteStatements) + 1)
    /\ LET db == DeleteAbort(CurrentDB, RunDeleteStatements(k - 1, CurrentDB, uid))
       IN  /\ users' = db.users
           /\ redeem_logs' = db.redeem_logs
    /\ history' = [history EXCEPT !.ops = @ + 1, !.last = "delete_user",
                                  !.failures = @ \cup {Failure("delete_user", k, uid)}]
    /\ UNCHANGED <<USING_SQLITE, redeem_codes, now, calls, adds, claimed, starts,
                   gencode, cleaner, admins, fsm, inputs>>

\* ---------------------------------------------------------------- update_credits
\* (variant for C14: the lifetime counter following every delta)
UpdateCreditsAlwaysEarned(tbl, uid, amount) ==
    {IF r.user_id = uid
     THEN [r EXCEPT !.credits = @ + amount, !.total_earned = @ + amount]
     ELSE r : r \in tbl}

\* (variant for C15: a read-then-write pair whose read saw the balance the
\* account was created with)
UpdateCreditsStaleRead(tbl, uid, amount) ==
    {IF r.user_id = uid
     THEN [r EXCEPT !.credits = DEFAULT_CREDITS + amount,
                    !.total_earned = IF amount > 0 THEN @ + amount ELSE @]
     ELSE r : r \in tbl}

\* amount > 0: UPDATE users SET credits = credits + ?, total_earned =
\* total_earned + ? WHERE user_id = ?; otherwise UPDATE users SET credits =
\* credits + ? WHERE user_id = ?.  One relative UPDATE either way.
UpdateCredits(tbl, uid, amount) ==
    IF amount > 0
    THEN {IF r.user_id = uid
          THEN [r EXCEPT !.credits = @ + amount, !.total_earned = @ + amount]
          ELSE r : r \in tbl}
    ELSE {IF r.user_id = uid THEN [r EXCEPT !.credits = @ + amount] ELSE r
          : r \in tbl}

\* ---------------------------------------------------------------- credit adjustments
\* update_credits(user_id, amount): one statement, committed by itself
update_credits(uid, amount) ==
    /\ history.ops < MaxOps
    /\ users' = UpdateCredits(users, uid, amount)
    /\ history' = [history EXCEPT !.ops = @ + 1, !.last = "update_credits",
                                  !.deltas[uid] = @ + amount]
    /\ UNCHANGED <<USING_SQLITE, redeem_codes, redeem_logs, now, calls, adds, claimed,
                   starts,
                   gencode, cleaner, admins, fsm, inputs>>

\* the first n statements of the loop of bulk_update_credits
RECURSIVE RunBulk(_, _, _, _)
RunBulk(n, user_ids, tbl, amount) ==
    IF n = 0 THEN tbl
    ELSE UpdateCredits(RunBulk(n - 1, user_ids, tbl, amount), user_ids[n], amount)

\* the deltas the loop of bulk_update_credits is to hand out
RECURSIVE BulkDeltas(_, _, _, _)
BulkDeltas(n, user_ids, deltas, amount) ==
    IF n = 0 THEN deltas
    ELSE [BulkDeltas(n - 1, user_ids, deltas, amount) EXCEPT ![user_ids[n]] = @ + amount]

\* (variant for C17: the statements before the failing one stay written)
BulkAbortKeepsPartial(before, partial) == partial

\* bulk_update_credits left by an exception.  SQLite: the connection is closed
\* inside its BEGIN TRANSACTION without the COMMIT; PostgreSQL:
\* conn.transaction() rolls back.
BulkAbort(before, partial) == before

\* bulk_update_credits(user_ids, amount), committed
bulk_update_credits(user_ids, amount) ==
    /\ history.ops < MaxOps
    /\ users' = RunBulk(Len(user_ids), user_ids, users, amount)
    /\ history' = [history EXCEPT !.ops = @ + 1, !.last = "bulk_update_credits",
                                  !.deltas = BulkDeltas(Len(user_ids), user_ids, @, amount)]
    /\ UNCHANGED <<USING_SQLITE, redeem_codes, redeem_logs, now, calls, adds, claimed,
                   starts,
                   gencode, cleaner, admins, fsm, inputs>>

\* bulk_update_credits failing at statement k of the loop (k past the last
\* one: at the commit); the exception leaves the function
BulkUpdateFail(user_ids, amount, k) ==
    /\ history.ops < MaxOps
    /\ k \in 1..(Len(user_ids) + 1)
    /\ users' = BulkAbort(users, RunBulk(k - 1, user_ids, users, amount))
    /\ history' = [history EXCEPT !.ops = @ + 1, !.last = "bulk_update_credits",
                                  !.failures = @ \cup {Failure("bulk_update_credits", k, amount)}]
    /\ UNCHANGED <<USING_SQLITE, redeem_codes, redeem_logs, now, calls, adds, claimed,
                   starts,
                   gencode, cleaner, admins, fsm, inputs>>

\* (variant for C27: the reset clearing the lifetime counter too)
ResetCreditsAndEarned(tbl, uid) ==
    {IF r.user_id = uid THEN [r EXCEPT !.credits = 0, !.total_earned = 0] ELSE r
     : r \in tbl}

\* UPDATE users SET credits = 0 WHERE user_id = ?
ResetCredits(tbl, uid) ==
    {IF r.user_id = uid THEN [r EXCEPT !.credits = 0] ELSE r : r \in tbl}

reset_user_credits(uid) ==
    /\ history.ops < MaxOps
    /\ users' = ResetCredits(users, uid)
    /\ history' = [history EXCEPT !.ops = @ + 1, !.last = "reset_user_credits",
                                  !.resets = @ \cup {uid}]
    /\ UNCHANGED <<USING_SQLITE, redeem_codes, redeem_logs, now, calls, adds, claimed,
                   starts,
                   gencode, cleaner, admins, fsm, inputs>>

\* ---------------------------------------------------------------- start_command
\* (variant for C13: the referrer parsed without the comparison to user_id)
ParseReferrerKeepSelf(uid, args) ==
    IF args.kind = "ref_int" THEN Some(args.n) ELSE NULL

\* args.startswith("ref_"): int(args.split("_")[1]), discarded when it is the
\* sender's own id; a ValueError of int() is swallowed and leaves None.
ParseReferrer(uid, args) ==
    IF args.kind = "ref_int"
    THEN IF args.n = uid THEN NULL ELSE Some(args.n)
    ELSE NULL

\* `if referrer_id:` -- None and 0 are false
Truthy(referrer_id) == referrer_id # NULL /\ Val(referrer_id) # 0

\* the handler after add_user returned: on to the bonus, or finished
AfterAddUser(rec, result) ==
    IF Truthy(rec.referrer_id)
    THEN [rec EXCEPT !.pc = "bonus", !.result = result]
    ELSE [rec EXCEPT !.pc = "done", !.result = result]

\* is_user_banned(user_id): get_user and the is_banned column
StartIsBanned(s, uid, args) ==
    /\ starts[s].pc = "idle"
    /\ \A q \in Starts : q < s => starts[q].pc # "idle"
    /\ starts' = [starts EXCEPT ![s] =
                     IF HasUser(users, uid) /\ UserRow(users, uid).is_banned = 1
                     THEN [IdleStart EXCEPT !.pc = "done", !.user_id = uid,
                                            !.args = args, !.result = "banned"]
                     ELSE [IdleStart EXCEPT !.pc = "get_user", !.user_id = uid,
                                            !.args = args]]
    /\ UNCHANGED <<USING_SQLITE, users, redeem_codes, redeem_logs, now, calls, adds,
                   claimed, history,
                   gencode, cleaner, admins, fsm, inputs>>

\* existing_user = await get_user(user_id); a new user's referrer is parsed
StartGetUser(s) ==
    /\ starts[s].pc = "get_user"
    /\ starts' = [starts EXCEPT ![s] =
                     IF HasUser(users, starts[s].user_id)
                     THEN [@ EXCEPT !.pc = "done", !.result = "existing"]
                     ELSE [@ EXCEPT !.pc = "add_user_select",
                                    !.referrer_id = ParseReferrer(starts[s].user_id,
                                                                  starts[s].args)]]
    /\ UNCHANGED <<USING_SQLITE, users, redeem_codes, redeem_logs, now, calls, adds,
                   claimed, history,
                   gencode, cleaner, admins, fsm, inputs>>

\* add_user, up to its SELECT: returns at once when the row exists
StartAddUserSelect(s) ==
    /\ starts[s].pc = "add_user_select"
    /\ starts' = [starts EXCEPT ![s] =
                     IF HasUser(users, starts[s].user_id)
                     THEN AfterAddUser(@, "returned")
                     ELSE [@ EXCEPT !.pc = "add_user_insert"]]
    /\ UNCHANGED <<USING_SQLITE, users, redeem_codes, redeem_logs, now, calls, adds,
                   claimed, history,
                   gencode, cleaner, admins, fsm, inputs>>

\* add_user, its INSERT: a duplicate key raises out of the handler
StartAddUserInsert(s) ==
    /\ starts[s].pc = "add_user_insert"
    /\ users' = InsertUser(users, NewUser(starts[s].user_id, "alice",
                                          starts[s].referrer_id, now))
    /\ starts' = [starts EXCEPT ![s] =
                     IF HasUser(users, starts[s].user_id)
                     THEN [@ EXCEPT !.pc = "done", !.result = "raised"]
                     ELSE AfterAddUser(@, "created")]
    /\ UNCHANGED <<USING_SQLITE, redeem_codes, redeem_logs, now, calls, adds,
                   claimed, history,
                   gencode, cleaner, admins, fsm, inputs>>

\* await update_credits(referrer_id, 3)
StartBonus(s) ==
    /\ starts[s].pc = "bonus"
    /\ users' = UpdateCredits(users, Val(starts[s].referrer_id), REFERRAL_BONUS)
    /\ starts' = [starts EXCEPT ![s].pc = "done",
                                ![s].credited = HasUser(users, Val(starts[s].referrer_id))]
    /\ UNCHANGED <<USING_SQLITE, redeem_codes, redeem_logs, now, calls, adds,
                   claimed, history,
                   gencode, cleaner, admins, fsm, inputs>>

\* update_credits raises, or the handler is cancelled before it runs: nothing
\* in start_command catches it and nothing runs after it
StartAbandon(s) ==
    /\ starts[s].pc = "bonus"
    /\ starts' = [starts EXCEPT ![s].pc = "done", ![s].result = "abandoned"]
    /\ UNCHANGED <<USING_SQLITE, users, redeem_codes, redeem_logs, now, calls, adds,
                   claimed, history,
                   gencode, cleaner, admins, fsm, inputs>>

\* ---------------------------------------------------------------- generate_random_code
\* a call parse_time_string(time_str)
ParseTimeString ==
    /\ gencode.pc = "idle"
    /\ \E time_str \in TimeStrings :
          gencode' = [IdleGenCode EXCEPT !.pc = "returned", !.cmd = "call",
                                         !.time_str = time_str,
                                         !.result = parse_time_string(time_str)]
    /\ UNCHANGED <<USING_SQLITE, users, redeem_codes, redeem_logs, now, calls, adds,
                   claimed, starts, history, cleaner,
                   admins, fsm, inputs>>

\* amt = int(args[0]); uses = int(args[1]); expiry_minutes = None, or
\* parse_time_string(args[2]) when there is a third argument; an exception
\* ends the handler in its except branch
GenCodeArgs(cmd, name, amt, uses, times) ==
    /\ gencode.pc = "idle"
    /\ \E time_str \in times :
          LET result == IF time_str = <<>> THEN Returned(NULL)
                        ELSE parse_time_string(time_str)
          IN  gencode' = [pc |-> IF result.tag = "raised" THEN "failed" ELSE "parsed",
                          cmd |-> cmd,
                          code |-> IF cmd = "gencode"
                                   THEN <<"P", "R", "O", "-">> \o upper(name)
                                   ELSE upper(name),
                          amt |-> amt, uses |-> uses,
                          time_str |-> time_str, result |-> result]
    /\ UNCHANGED <<USING_SQLITE, users, redeem_codes, redeem_logs, now, calls, adds,
                   claimed, starts, history, cleaner,
                   admins, fsm, inputs>>

\* await create_redeem_code(code, amt, uses, expiry_minutes), the code being
\* f"PRO-{secrets.token_hex(3).upper()}" for /gencode and parts[0].upper() for
\* the custom form
GenCodeCreate ==
    /\ gencode.pc = "parsed"
    /\ LET row == NewCode(gencode.code, gencode.amt, gencode.uses,
                          gencode.result.value, now)
       IN  redeem_codes' = IF USING_SQLITE THEN InsertOrReplaceCode(redeem_codes, row)
                           ELSE UpsertCode(redeem_codes, row)
    /\ gencode' = [gencode EXCEPT !.pc = "created"]
    /\ UNCHANGED <<USING_SQLITE, users, redeem_logs, now, calls, adds, claimed, starts,
                   history, cleaner, admins, fsm, inputs>>

\* ---------------------------------------------------------------- clean_expired_cmd
\* expired = await get_expired_codes(); an empty list ends the command
CleanFetch ==
    /\ cleaner.pc \in {"idle", "done"}
    /\ LET expired == get_expired_codes(redeem_codes, now)
       IN  cleaner' = [pc |-> IF expired = {} THEN "done" ELSE "deleting",
                       expired |-> {r.code : r \in expired},
                       codes_then |-> redeem_codes,
                       fetched_at |-> now]
    /\ UNCHANGED <<USING_SQLITE, users, redeem_codes, redeem_logs, now, calls, adds,
                   claimed, starts, history, gencode, admins, fsm, inputs>>

\* one turn of `for code_data in expired: await delete_redeem_code(code_data[0])`;
\* the SELECT has no ORDER BY, so the list is in any order
CleanDelete(code) ==
    /\ cleaner.pc = "deleting"
    /\ code \in cleaner.expired
    /\ redeem_codes' = {r \in redeem_codes : r.code # code}
    /\ cleaner' = [cleaner EXCEPT !.expired = @ \ {code},
                                  !.pc = IF cleaner.expired = {code} THEN "done"
                                         ELSE "deleting"]
    /\ UNCHANGED <<USING_SQLITE, users, redeem_logs, now, calls, adds, claimed, starts,
                   history, gencode, admins, fsm, inputs>>

\* ---------------------------------------------------------------- admins, bans, FSM states
\* is_user_admin for a sender that is neither OWNER_ID nor one of ADMIN_IDS:
\* the level of its admins row, None without one
is_user_admin(tbl, uid) == uid \in tbl

\* is_user_banned: user and user[5] == 1
is_user_banned(tbl, uid) == HasUser(tbl, uid) /\ UserRow(tbl, uid).is_banned = 1

add_admin(uid) ==
    /\ admins' = admins \cup {uid}
    /\ UNCHANGED <<USING_SQLITE, users, redeem_codes, redeem_logs, now, calls, adds,
                   claimed, starts, history, gencode, cleaner, fsm, inputs>>

remove_admin(uid) ==
    /\ admins' = admins \ {uid}
    /\ UNCHANGED <<USING_SQLITE, users, redeem_codes, redeem_logs, now, calls, adds,
                   claimed, starts, history, gencode, cleaner, fsm, inputs>>

\* UPDATE users SET is_banned = ? WHERE user_id = ?
set_ban_status(uid, status) ==
    /\ users' = {IF r.user_id = uid THEN [r EXCEPT !.is_banned = status] ELSE r
                 : r \in users}
    /\ UNCHANGED <<USING_SQLITE, redeem_codes, redeem_logs, now, calls, adds, claimed,
                   starts, history, gencode, cleaner, admins, fsm, inputs>>

\* the Form states a command of an admin sets, and the two a user's menu sets
AdminStates == {"waiting_for_delete_user", "waiting_for_reset_credits",
                "waiting_for_bulk_gift", "waiting_for_stats_range",
                "waiting_for_settings"}
UserStates == {"waiting_for_redeem", "waiting_for_api_input"}

\* /deleteuser, /resetcredits, /bulkgift, /backup, /settings: the command of
\* a sender that is_user_admin accepts sets the state
admin_cmd(uid, st) ==
    /\ is_user_admin(admins, uid)
    /\ fsm' = [fsm EXCEPT ![uid] = st]
    /\ UNCHANGED <<USING_SQLITE, users, redeem_codes, redeem_logs, now, calls, adds,
                   claimed, starts, history, gencode, cleaner, admins, inputs>>

\* the "redeem" button
redeem_start(uid) ==
    /\ fsm' = [fsm EXCEPT ![uid] = "waiting_for_redeem"]
    /\ UNCHANGED <<USING_SQLITE, users, redeem_codes, redeem_logs, now, calls, adds,
                   claimed, starts, history, gencode, cleaner, admins, inputs>>

\* an "api_<type>" button, by a sender who is not banned
ask_api_input(uid) ==
    /\ ~is_user_banned(users, uid)
    /\ fsm' = [fsm EXCEPT ![uid] = "waiting_for_api_input"]
    /\ UNCHANGED <<USING_SQLITE, users, redeem_codes, redeem_logs, now, calls, adds,
                   claimed, starts, history, gencode, cleaner, admins, inputs>>

\* ---------------------------------------------------------------- handle_inputs
\* the handler leaves without state.clear(), or after it
Ended(rec, outcome) == [rec EXCEPT !.pc = "done", !.outcome = outcome]

\* if await is_user_banned(user_id): return
InputIsBanned(h, uid, text, arg, ids) ==
    /\ inputs[h].pc = "idle"
    /\ \A q \in Inputs : q < h => inputs[q].pc # "idle"
    /\ inputs' = [inputs EXCEPT ![h] =
                     LET rec == [IdleInput EXCEPT !.user_id = uid, !.text = text,
                                                  !.arg = arg, !.ids = ids]
                     IN  IF is_user_banned(users, uid) THEN Ended(rec, "banned")
                         ELSE [rec EXCEPT !.pc = "get_state"]]
    /\ UNCHANGED <<USING_SQLITE, users, redeem_codes, redeem_logs, now, calls, adds,
                   claimed, starts, history, gencode, cleaner, admins, fsm>>

\* current_state = await state.get_state(), and the branch it selects; the
\* redeem branch computes code = message.text.strip().upper()
InputGetState(h) ==
    /\ inputs[h].pc = "get_state"
    /\ LET st == fsm[inputs[h].user_id]
           rec == [inputs[h] EXCEPT !.state = st]
       IN  inputs' = [inputs EXCEPT ![h] =
              IF st = "waiting_for_redeem"
              THEN [rec EXCEPT !.pc = "select_logs", !.code = upper(strip(rec.text))]
              ELSE IF st = "waiting_for_api_input" THEN [rec EXCEPT !.pc = "api_is_banned"]
              ELSE IF st = "waiting_for_stats_range" THEN [rec EXCEPT !.pc = "stats_range"]
              ELSE IF st = "waiting_for_settings" THEN [rec EXCEPT !.pc = "clear"]
              ELSE IF st \in AdminStates THEN [rec EXCEPT !.pc = "admin_op"]
              ELSE Ended(rec, "menu")]
    /\ UNCHANGED <<USING_SQLITE, users, redeem_codes, redeem_logs, now, calls, adds,
                   claimed, starts, history, gencode, cleaner, admins, fsm>>

\* redeem_code_db, first SELECT
InputSelectLogs(h) ==
    /\ inputs[h].pc = "select_logs"
    /\ inputs' = [inputs EXCEPT ![h] =
                     IF BagIn(LogRow(inputs[h].user_id, inputs[h].code), redeem_logs)
                     THEN [@ EXCEPT !.pc = "clear", !.result = Tagged("already_claimed")]
                     ELSE [@ EXCEPT !.pc = "select_code"]]
    /\ UNCHANGED <<USING_SQLITE, users, redeem_codes, redeem_logs, now, calls, adds,
                   claimed, starts, history, gencode, cleaner, admins, fsm>>

\* redeem_code_db, second SELECT and the checks on its row
InputSelectCode(h) ==
    /\ inputs[h].pc = "select_code"
    /\ LET verdict == CheckCode(redeem_codes, inputs[h].code, now)
       IN  inputs' = [inputs EXCEPT ![h] =
                         IF verdict = "ok"
                         THEN [@ EXCEPT !.pc = "write",
                                        !.amount = CodeRow(redeem_codes,
                                                           inputs[h].code).amount]
                         ELSE [@ EXCEPT !.pc = "clear", !.result = Tagged(verdict)]]
    /\ UNCHANGED <<USING_SQLITE, users, redeem_codes, redeem_logs, now, calls, adds,
                   claimed, starts, history, gencode, cleaner, admins, fsm>>

\* redeem_code_db, the write transaction, committed
InputWrite(h) ==
    /\ inputs[h].pc = "write"
    /\ LET stmts == RedeemStatements(USING_SQLITE)
           db == RunStatements(Len(stmts), stmts, CurrentDB,
                               inputs[h].user_id, inputs[h].code, inputs[h].amount)
       IN  /\ users' = db.users
           /\ redeem_codes' = db.redeem_codes
           /\ redeem_logs' = db.redeem_logs
    /\ inputs' = [inputs EXCEPT ![h].pc = "get_user",
                                ![h].result = Granted(inputs[h].amount)]
    /\ claimed' = claimed \cup {<<inputs[h].user_id, inputs[h].code>>}
    /\ UNCHANGED <<USING_SQLITE, now, calls, adds, starts, history, gencode, cleaner,
                   admins, fsm>>

\* user_data = await get_user(user_id);
\* new_balance = user_data[2] + result if user_data else result
InputGetUser(h) ==
    /\ inputs[h].pc = "get_user"
    /\ inputs' = [inputs EXCEPT ![h].pc = "clear",
                     ![h].new_balance =
                         IF HasUser(users, inputs[h].user_id)
                         THEN UserRow(users, inputs[h].user_id).credits
                                  + inputs[h].result.amount
                         ELSE inputs[h].result.amount]
    /\ UNCHANGED <<USING_SQLITE, users, redeem_codes, redeem_logs, now, calls, adds,
                   claimed, starts, history, gencode, cleaner, admins, fsm>>

\* WHERE joined_date BETWEEN ? AND ?
get_users_in_range(tbl, start_date, end_date) ==
    {r \in tbl : start_date <= r.joined_date /\ r.joined_date <= end_date}

\* the stats-range branch: days = int(text); an empty get_users_in_range
\* answers and returns, anything else goes on to state.clear()
InputStatsRange(h) ==
    /\ inputs[h].pc = "stats_range"
    /\ inputs' = [inputs EXCEPT ![h] =
                     IF get_users_in_range(users, now - inputs[h].arg * 1440, now) = {}
                     THEN Ended(@, "returned")
                     ELSE [@ EXCEPT !.pc = "clear"]]
    /\ UNCHANGED <<USING_SQLITE, users, redeem_codes, redeem_logs, now, calls, adds,
                   claimed, starts, history, gencode, cleaner, admins, fsm>>

\* the branches that run delete_user(uid), reset_user_credits(uid) and
\* bulk_update_credits(user_ids, amount) on what the text says
InputAdminOp(h) ==
    /\ inputs[h].pc = "admin_op"
    /\ LET st == inputs[h].state
           db == IF st = "waiting_for_delete_user"
                 THEN DeleteUserRows(CurrentDB, inputs[h].arg)
                 ELSE IF st = "waiting_for_reset_credits"
                 THEN DB(ResetCredits(users, inputs[h].arg), redeem_codes, redeem_logs)
                 ELSE DB(RunBulk(Len(inputs[h].ids), inputs[h].ids, users,
                                 inputs[h].arg), redeem_codes, redeem_logs)
       IN  /\ users' = db.users
           /\ redeem_logs' = db.redeem_logs
           /\ claimed' = IF st = "waiting_for_delete_user"
                         THEN {pr \in claimed : pr[1] # inputs[h].arg}
                         ELSE claimed
    /\ inputs' = [inputs EXCEPT ![h].pc = "clear"]
    /\ UNCHANGED <<USING_SQLITE, redeem_codes, now, calls, adds, starts, history,
                   gencode, cleaner, admins, fsm>>

\* the answer of the branch, then await state.clear()
InputClear(h) ==
    /\ inputs[h].pc = "clear"
    /\ fsm' = [fsm EXCEPT ![inputs[h].user_id] = "none"]
    /\ inputs' = [inputs EXCEPT ![h] = Ended(@, "cleared")]
    /\ UNCHANGED <<USING_SQLITE, users, redeem_codes, redeem_logs, now, calls, adds,
                   claimed, starts, history, gencode, cleaner, admins>>

\* ---------------------------------------------------------------- process_api_call
\* if await is_user_banned(user_id): return
ApiIsBanned(h) ==
    /\ inputs[h].pc = "api_is_banned"
    /\ inputs' = [inputs EXCEPT ![h] =
                     IF is_user_banned(users, inputs[h].user_id)
                     THEN [@ EXCEPT !.pc = "clear", !.result = Tagged("banned")]
                     ELSE [@ EXCEPT !.pc = "api_get_user"]]
    /\ UNCHANGED <<USING_SQLITE, users, redeem_codes, redeem_logs, now, calls, adds,
                   claimed, starts, history, gencode, cleaner, admins, fsm>>

\* user = await get_user(user_id): user[2], or None without a row
ApiGetUser(h) ==
    /\ inputs[h].pc = "api_get_user"
    /\ inputs' = [inputs EXCEPT ![h].pc = "api_is_admin",
                     ![h].credits = IF HasUser(users, inputs[h].user_id)
                                    THEN Some(UserRow(users, inputs[h].user_id).credits)
                                    ELSE NULL]
    /\ UNCHANGED <<USING_SQLITE, users, redeem_codes, redeem_logs, now, calls, adds,
                   claimed, starts, history, gencode, cleaner, admins, fsm>>

\* admin_level = await is_user_admin(user_id), and the checks before the
\* provider call: credits (user[2] of None raises TypeError), APIS.get(api_type),
\* the numeric UID of ff_info
ApiIsAdmin(h, available, valid) ==
    /\ inputs[h].pc = "api_is_admin"
    /\ LET admin_level == is_user_admin(admins, inputs[h].user_id)
           rec == [inputs[h] EXCEPT !.admin_level = admin_level]
       IN  inputs' = [inputs EXCEPT ![h] =
              IF ~admin_level /\ rec.credits = NULL THEN Ended(rec, "raised")
              ELSE IF ~admin_level /\ Val(rec.credits) < 1
              THEN [rec EXCEPT !.pc = "clear", !.result = Tagged("insufficient")]
              ELSE IF ~available
              THEN [rec EXCEPT !.pc = "clear", !.result = Tagged("unavailable")]
              ELSE IF ~valid
              THEN [rec EXCEPT !.pc = "clear", !.result = Tagged("invalid_uid")]
              ELSE [rec EXCEPT !.pc = "fetch"]]
    /\ UNCHANGED <<USING_SQLITE, users, redeem_codes, redeem_logs, now, calls, adds,
                   claimed, starts, history, gencode, cleaner, admins, fsm>>

\* the provider call: a response, or an exception that the except branch
\* turns into an error document; the replies follow either
ApiFetch(h, ok) ==
    /\ inputs[h].pc = "fetch"
    /\ inputs' = [inputs EXCEPT ![h].pc = "charge",
                                ![h].result = Tagged(IF ok THEN "fetched" ELSE "failed")]
    /\ UNCHANGED <<USING_SQLITE, users, redeem_codes, redeem_logs, now, calls, adds,
                   claimed, starts, history, gencode, cleaner, admins, fsm>>

\* (variant: the charge that is skipped when the provider call failed)
ChargeOnSuccess(tbl, rec) ==
    IF ~rec.admin_level /\ rec.result = Tagged("fetched")
    THEN UpdateCredits(tbl, rec.user_id, -1) ELSE tbl

\* if not admin_level: await update_credits(user_id, -1)
Charge(tbl, rec) ==
    IF ~rec.admin_level THEN UpdateCredits(tbl, rec.user_id, -1) ELSE tbl

ApiCharge(h) ==
    /\ inputs[h].pc = "charge"
    /\ users' = Charge(users, inputs[h])
    /\ inputs' = [inputs EXCEPT ![h].pc = "log"]
    /\ UNCHANGED <<USING_SQLITE, redeem_codes, redeem_logs, now, calls, adds, claimed,
                   starts, history, gencode, cleaner, admins, fsm>>

\* await log_lookup(...); await update_last_active(user_id)
ApiLog(h) ==
    /\ inputs[h].pc = "log"
    /\ users' = {IF r.user_id = inputs[h].user_id THEN [r EXCEPT !.last_active = now]
                 ELSE r : r \in users}
    /\ inputs' = [inputs EXCEPT ![h].pc = "clear"]
    /\ UNCHANGED <<USING_SQLITE, redeem_codes, redeem_logs, now, calls, adds, claimed,
                   starts, history, gencode, cleaner, admins, fsm>>

\* ---------------------------------------------------------------- clock
Tick ==
    /\ now + 1 \in Minutes
    /\ now' = now + 1
    /\ UNCHANGED <<USING_SQLITE, users, redeem_codes, redeem_logs, calls, adds, claimed,
                   starts, history,
                   gencode, cleaner, admins, fsm, inputs>>

\* ---------------------------------------------------------------- specifications
\* Spec: the registry.  Every account of UserIds is registered (by a /start
\* long ago) and no code is defined; the administrative operations, the clock
\* and any number of concurrent claims then run in any order.
Init ==
    /\ USING_SQLITE \in BOOLEAN
    /\ users = {NewUser(uid, "alice", NULL, 0) : uid \in UserIds}
    /\ redeem_codes = {}
    /\ redeem_logs = EmptyBag
    /\ now = 0
    /\ calls = [p \in Calls |-> IdleCall]
    /\ adds = [a \in Adds |-> IdleAdd]
    /\ claimed = {}
    /\ starts = [s \in Starts |-> IdleStart]
    /\ history = NoHistory
    /\ gencode = IdleGenCode
    /\ cleaner = IdleCleaner
    /\ admins = {}
    /\ fsm = [u \in UserIds |-> "none"]
    /\ inputs = [h \in Inputs |-> IdleInput]

Next ==
    \/ \E c \in Codes, am \in Amounts, d \in CodeDefs :
          create_redeem_code(c, am, d[1], d[2])
    \/ \E c \in Codes : deactivate_code(c)
    \/ \E c \in Codes : delete_redeem_code(c)
    \/ \E p \in Calls, uid \in UserIds, c \in Codes : RedeemCheckClaimed(p, uid, c)
    \/ \E p \in Calls : RedeemReadCode(p)
    \/ \E p \in Calls : RedeemCommit(p)
    \/ \E p \in Calls, k \in 1..(Len(RedeemStatements(USING_SQLITE)) + 1) :
          RedeemFail(p, k)
    \/ \E uid \in UserIds : delete_user(uid)
    \/ Tick

Spec == Init /\ [][Next]_vars

\* SpecClaim: each code is defined once and never touched again, no account is
\* deleted, no statement fails and the clock stands still; only claims run,
\* in any interleaving of their three steps.
DefineOnce(code, amount, max_uses, expiry_minutes) ==
    /\ ~HasCode(redeem_codes, code)
    /\ create_redeem_code(code, amount, max_uses, expiry_minutes)

NextClaim ==
    \/ \E c \in Codes, am \in Amounts, d \in CodeDefs :
          DefineOnce(c, am, d[1], d[2])
    \/ \E p \in Calls, uid \in UserIds, c \in Codes : RedeemCheckClaimed(p, uid, c)
    \/ \E p \in Calls : RedeemReadCode(p)
    \/ \E p \in Calls : RedeemCommit(p)

SpecClaim == Init /\ [][NextClaim]_vars

\* SpecAddUser: the users table starts empty and add_user invocations run
\* concurrently, with any usernames and referrers, while the clock advances.
InitAddUser ==
    /\ USING_SQLITE \in BOOLEAN
    /\ users = {}
    /\ redeem_codes = {}
    /\ redeem_logs = EmptyBag
    /\ now = 0
    /\ calls = [p \in Calls |-> IdleCall]
    /\ adds = [a \in Adds |-> IdleAdd]
    /\ claimed = {}
    /\ starts = [s \in Starts |-> IdleStart]
    /\ history = NoHistory
    /\ gencode = IdleGenCode
    /\ cleaner = IdleCleaner
    /\ admins = {}
    /\ fsm = [u \in UserIds |-> "none"]
    /\ inputs = [h \in Inputs |-> IdleInput]

NextAddUser ==
    \/ \E a \in Adds, uid \in UserIds, n \in Usernames, ref \in Referrers :
          AddUserCheck(a, uid, n, ref)
    \/ \E a \in Adds : AddUserInsert(a)
    \/ Tick

SpecAddUser == InitAddUser /\ [][NextAddUser]_vars

\* /start commands alone, on a users table that is empty or holds account 1
InitStart ==
    /\ USING_SQLITE \in BOOLEAN
    /\ users \in {{}, {NewUser(1, "alice", NULL, 0)}}
    /\ redeem_codes = {}
    /\ redeem_logs = EmptyBag
    /\ now = 0
    /\ calls = [p \in Calls |-> IdleCall]
    /\ adds = [a \in Adds |-> IdleAdd]
    /\ claimed = {}
    /\ starts = [s \in Starts |-> IdleStart]
    /\ history = NoHistory
    /\ gencode = IdleGenCode
    /\ cleaner = IdleCleaner
    /\ admins = {}
    /\ fsm = [u \in UserIds |-> "none"]
    /\ inputs = [h \in Inputs |-> IdleInput]

NextStart ==
    \/ \E s \in Starts, uid \in UserIds, args \in StartArgs : StartIsBanned(s, uid, args)
    \/ \E s \in Starts : StartGetUser(s)
    \/ \E s \in Starts : StartAddUserSelect(s)
    \/ \E s \in Starts : StartAddUserInsert(s)
    \/ \E s \in Starts : StartBonus(s)
    \/ \E s \in Starts : StartAbandon(s)

SpecStart == InitStart /\ [][NextStart]_vars

\* the credit adjustments alone, all users registered
NextLedger ==
    \/ \E uid \in UserIds, d \in Deltas : update_credits(uid, d)
    \/ \E ids \in IdLists, d \in Deltas : bulk_update_credits(ids, d)
    \/ \E ids \in IdLists, d \in Deltas :
           \E k \in 1..(Len(ids) + 1) : BulkUpdateFail(ids, d, k)
    \/ \E uid \in UserIds : reset_user_credits(uid)

SpecLedger == Init /\ [][NextLedger]_vars

\* update_credits next to code redemption, all users registered
NextGrant ==
    \/ \E c \in Codes, am \in SignedAmounts, d \in CodeDefs : DefineOnce(c, am, d[1], d[2])
    \/ \E p \in Calls, uid \in UserIds, c \in Codes : RedeemCheckClaimed(p, uid, c)
    \/ \E p \in Calls : RedeemReadCode(p)
    \/ \E p \in Calls : RedeemCommit(p)
    \/ \E uid \in UserIds, d \in Deltas : update_credits(uid, d)

SpecGrant == Init /\ [][NextGrant]_vars

\* delete_user on a database in which account 2 was referred by account 1
\* (the bonus paid) and the accounts of `claimants` have each claimed a code
\* worth 2 credits
ClaimedBy(claimants, uid) == IF uid \in claimants THEN 2 ELSE 0

InitDelete ==
    /\ USING_SQLITE \in BOOLEAN
    /\ \E claimants \in SUBSET UserIds :
           /\ users = {[NewUser(1, "alice", NULL, 0) EXCEPT
                            !.credits = @ + REFERRAL_BONUS + ClaimedBy(claimants, 1),
                            !.total_earned = @ + REFERRAL_BONUS + ClaimedBy(claimants, 1)],
                       [NewUser(2, "bob", Some(1), 0) EXCEPT
                            !.credits = @ + ClaimedBy(claimants, 2),
                            !.total_earned = @ + ClaimedBy(claimants, 2)]}
           /\ redeem_codes = {[NewCode("WELCOME50", 2, 2, NULL, 0) EXCEPT
                                   !.current_uses = Cardinality(claimants)]}
           /\ redeem_logs = SetToBag({LogRow(uid, "WELCOME50") : uid \in claimants})
           /\ claimed = {<<uid, "WELCOME50">> : uid \in claimants}
    /\ now = 0
    /\ calls = [p \in Calls |-> IdleCall]
    /\ adds = [a \in Adds |-> IdleAdd]
    /\ starts = [s \in Starts |-> IdleStart]
    /\ history = NoHistory
    /\ gencode = IdleGenCode
    /\ cleaner = IdleCleaner
    /\ admins = {}
    /\ fsm = [u \in UserIds |-> "none"]
    /\ inputs = [h \in Inputs |-> IdleInput]

NextDelete ==
    \/ \E uid \in UserIds : delete_user(uid)
    \/ \E uid \in UserIds, k \in 1..(Len(DeleteStatements) + 1) : DeleteUserFail(uid, k)

SpecDelete == InitDelete /\ [][NextDelete]_vars

\* codes with and without an expiry, claimed by account 1 while the clock runs
NextExpiry ==
    \/ \E c \in Codes, am \in Amounts, d \in ExpiryDefs : DefineOnce(c, am, d[1], d[2])
    \/ \E c \in Codes : deactivate_code(c)
    \/ \E c \in Codes : delete_redeem_code(c)
    \/ \E p \in Calls, c \in Codes : RedeemCheckClaimed(p, 1, c)
    \/ \E p \in Calls : RedeemReadCode(p)
    \/ \E p \in Calls : RedeemCommit(p)
    \/ Tick

SpecExpiry == Init /\ [][NextExpiry]_vars

\* define a fresh code without expiry, then claim it, one call after the other
ClaimAfterDefine(p, uid, c) ==
    /\ HasCode(redeem_codes, c)
    /\ \A q \in Calls : calls[q].pc \in {"idle", "done"}
    /\ RedeemCheckClaimed(p, uid, c)

NextRoundTrip ==
    \/ \E c \in Codes, am \in RoundTripAmounts, u \in RoundTripUses : DefineOnce(c, am, u, NULL)
    \/ \E p \in Calls, uid \in UserIds, c \in Codes : ClaimAfterDefine(p, uid, c)
    \/ \E p \in Calls : RedeemReadCode(p)
    \/ \E p \in Calls : RedeemCommit(p)

SpecRoundTrip == Init /\ [][NextRoundTrip]_vars

\* /cleanexpired next to code definition, deactivation and the clock
NextClean ==
    \/ \E c \in CleanCodes, am \in Amounts, d \in ExpiryDefs : DefineOnce(c, am, d[1], d[2])
    \/ \E c \in CleanCodes : deactivate_code(c)
    \/ CleanFetch
    \/ \E c \in CleanCodes : CleanDelete(c)
    \/ Tick

SpecClean == Init /\ [][NextClean]_vars

\* parse_time_string by itself and in the two commands that define a code
NextParse ==
    \/ ParseTimeString
    \/ \E amt \in Amounts, uses \in Amounts, name \in HexTokens :
          GenCodeArgs("gencode", name, amt, uses, TimeStrings \ NoneStrings)
    \/ \E amt \in Amounts, uses \in Amounts, name \in CustomNames :
          GenCodeArgs("custom", name, amt, uses, TimeStrings \ NoneStrings)
    \/ GenCodeCreate

SpecParse == Init /\ [][NextParse]_vars

\* claims by both accounts of a single-use code that may be deactivated,
\* deleted and left to expire
NextPrecedence ==
    \/ \E c \in Codes, am \in Amounts, d \in PrecedenceDefs : DefineOnce(c, am, d[1], d[2])
    \/ \E c \in Codes : deactivate_code(c)
    \/ \E c \in Codes : delete_redeem_code(c)
    \/ \E p \in Calls, uid \in UserIds, c \in Codes : RedeemCheckClaimed(p, uid, c)
    \/ \E p \in Calls : RedeemReadCode(p)
    \/ \E p \in Calls : RedeemCommit(p)
    \/ Tick

SpecPrecedence == Init /\ [][NextPrecedence]_vars

\* a text message handled when no other is in flight
InputAfterOthers(h, uid, text, arg, ids) ==
    /\ \A q \in Inputs : inputs[q].pc \in {"idle", "done"}
    /\ InputIsBanned(h, uid, text, arg, ids)

\* one code created by a command, then redeem submissions of account 1
NextCase ==
    \/ \E amt \in Amounts, uses \in Amounts, name \in HexTokens :
          GenCodeArgs("gencode", name, amt, uses, {<<>>})
    \/ \E amt \in Amounts, uses \in Amounts, name \in CaseNames :
          GenCodeArgs("custom", name, amt, uses, {<<>>})
    \/ GenCodeCreate
    \/ redeem_start(1)
    \/ \E h \in Inputs, text \in CaseTexts : InputAfterOthers(h, 1, text, 0, <<>>)
    \/ \E h \in Inputs : InputGetState(h)
    \/ \E h \in Inputs : InputSelectLogs(h)
    \/ \E h \in Inputs : InputSelectCode(h)
    \/ \E h \in Inputs : InputWrite(h)
    \/ \E h \in Inputs : InputGetUser(h)
    \/ \E h \in Inputs : InputClear(h)

SpecCase == Init /\ [][NextCase]_vars

\* lookups of account 1, whose credits an admin may have lowered beforehand
\* and who may be made an admin
NextLookup ==
    \/ (\A q \in Inputs : inputs[q].pc = "idle") /\ update_credits(1, -4)
    \/ add_admin(1)
    \/ ask_api_input(1)
    \/ \E h \in Inputs : InputIsBanned(h, 1, <<>>, 0, <<>>)
    \/ \E h \in Inputs : InputGetState(h)
    \/ \E h \in Inputs : ApiIsBanned(h)
    \/ \E h \in Inputs : ApiGetUser(h)
    \/ \E h \in Inputs, available \in BOOLEAN, valid \in BOOLEAN :
          ApiIsAdmin(h, available, valid)
    \/ \E h \in Inputs, ok \in BOOLEAN : ApiFetch(h, ok)
    \/ \E h \in Inputs : ApiCharge(h)
    \/ \E h \in Inputs : ApiLog(h)
    \/ \E h \in Inputs : InputClear(h)

SpecLookup == Init /\ [][NextLookup]_vars

\* the operations that write credits of account 1 (registration, grant,
\* gift and deduction, reset, deletion), the codes having amounts that are not
\* negative
NextBalance ==
    \/ \E c \in Codes, am \in NonNegAmounts, d \in CodeDefs : DefineOnce(c, am, d[1], d[2])
    \/ \E p \in Calls, c \in Codes : RedeemCheckClaimed(p, 1, c)
    \/ \E p \in Calls : RedeemReadCode(p)
    \/ \E p \in Calls : RedeemCommit(p)
    \/ \E p \in Calls : \E k \in 1..(Len(RedeemStatements(USING_SQLITE)) + 1) :
          RedeemFail(p, k)
    \/ \E d \in Deltas : update_credits(1, d)
    \/ reset_user_credits(1)
    \/ delete_user(1)
    \/ AddUserCheck(1, 1, "alice", NULL)
    \/ AddUserInsert(1)

SpecBalance == Init /\ [][NextBalance]_vars

\* an admin's destructive commands and the text that follows them, next to
\* the owner's /addadmin and /removeadmin
NextAdminGate ==
    \/ add_admin(1)
    \/ remove_admin(1)
    \/ \E st \in {"waiting_for_delete_user", "waiting_for_reset_credits",
                  "waiting_for_bulk_gift"} : admin_cmd(1, st)
    \/ \E h \in Inputs, arg \in UserIds, ids \in IdLists :
          InputIsBanned(h, 1, <<>>, arg, ids)
    \/ \E h \in Inputs : InputGetState(h)
    \/ \E h \in Inputs : InputAdminOp(h)
    \/ \E h \in Inputs : InputClear(h)

SpecAdminGate == Init /\ [][NextAdminGate]_vars

\* redeem submissions and lookups of account 1 next to a /ban of it
NextBan ==
    \/ \E am \in Amounts : DefineOnce(<<"A">>, am, 2, NULL)
    \/ redeem_start(1)
    \/ ask_api_input(1)
    \/ set_ban_status(1, 1)
    \/ \E h \in Inputs : InputIsBanned(h, 1, <<"a">>, 0, <<>>)
    \/ \E h \in Inputs : InputGetState(h)
    \/ \E h \in Inputs : InputSelectLogs(h)
    \/ \E h \in Inputs : InputSelectCode(h)
    \/ \E h \in Inputs : InputWrite(h)
    \/ \E h \in Inputs : InputGetUser(h)
    \/ \E h \in Inputs : InputClear(h)
    \/ \E h \in Inputs : ApiIsBanned(h)
    \/ \E h \in Inputs : ApiGetUser(h)
    \/ \E h \in Inputs, available \in BOOLEAN, valid \in BOOLEAN :
          ApiIsAdmin(h, available, valid)
    \/ \E h \in Inputs, ok \in BOOLEAN : ApiFetch(h, ok)
    \/ \E h \in Inputs : ApiCharge(h)
    \/ \E h \in Inputs : ApiLog(h)

SpecBan == Init /\ [][NextBan]_vars

\* /cleanexpired next to commands that define a code again
NextRedefine ==
    \/ \E c \in CleanCodes, am \in Amounts, d \in ExpiryDefs :
          create_redeem_code(c, am, d[1], d[2])
    \/ CleanFetch
    \/ \E c \in CleanCodes : CleanDelete(c)
    \/ Tick

SpecRedefine == Init /\ [][NextRedefine]_vars

\* /backup and /settings of an admin, the texts that follow them, the clock
NextForm ==
    \/ add_admin(1)
    \/ \E st \in {"waiting_for_stats_range", "waiting_for_settings"} : admin_cmd(1, st)
    \/ \E h \in Inputs, days \in Days : InputIsBanned(h, 1, <<>>, days, <<>>)
    \/ \E h \in Inputs : InputGetState(h)
    \/ \E h \in Inputs : InputStatsRange(h)
    \/ \E h \in Inputs : InputClear(h)
    \/ Tick

SpecForm == Init /\ [][NextForm]_vars

\* ---------------------------------------------------------------- claims
IsGranted(p) == calls[p].pc = "done" /\ calls[p].result.tag = "granted"

\* the step in which call p leaves its write transaction
Finishes(p) == calls[p].pc = "write" /\ calls'[p].pc = "done"

\* the step in which call p is issued
Issued(p) == calls[p].pc = "idle" /\ calls'[p].pc # "idle"

TablesUnchanged == UNCHANGED <<users, redeem_codes, redeem_logs>>

\* C1: a code defined once with max_uses = N has current_uses <= N in every
\* reachable state, under any interleaving of concurrent claims.
C1_UsesWithinMax ==
    \A r \in redeem_codes : r.current_uses <= r.max_uses

\* C2: for a code with max_uses = N, the distinct accounts whose claims
\* returned Granted are at most N.
C2_GrantsWithinMax ==
    \A r \in redeem_codes :
        Cardinality({calls[p].user_id : p \in {q \in Calls : IsGranted(q) /\ calls[q].code = r.code}})
            <= r.max_uses

\* C3: two claims of one code by one account never both return Granted.
C3_NoDoubleGrant ==
    \A p, q \in Calls :
        (p # q /\ IsGranted(p) /\ IsGranted(q) /\ calls[p].code = calls[q].code)
            => calls[p].user_id # calls[q].user_id

C4_OneRowPerPair ==
    \A uid \in UserIds, c \in Codes : LogCount(redeem_logs, uid, c) <= 1

C4_AfterAnyGrant ==
    \A p \in Calls :
        (/\ Issued(p)
         /\ \E q \in Calls : /\ IsGranted(q)
                             /\ calls[q].user_id = calls'[p].user_id
                             /\ calls[q].code = calls'[p].code)
            => /\ calls'[p].pc = "done"
               /\ calls'[p].result = Tagged("already_claimed")
               /\ TablesUnchanged

\* C4 (as stated): at most one redeem_logs row per (account, code), and a
\* claim issued after a completed Granted claim of the same code by the same
\* account returns already_claimed and changes no table.
C4_Original == [] C4_OneRowPerPair /\ [][C4_AfterAnyGrant]_vars

C4_AfterGrantNoDelete ==
    \A p \in Calls :
        (Issued(p) /\ <<calls'[p].user_id, calls'[p].code>> \in claimed)
            => /\ calls'[p].pc = "done"
               /\ calls'[p].result = Tagged("already_claimed")
               /\ TablesUnchanged

\* C4 (amended): at most one redeem_logs row per (account, code), and a claim
\* issued after a completed Granted claim of the same code by the same
\* account, with no delete_user of that account in between, returns
\* already_claimed and changes no table.
C4_ClaimedOnce == [] C4_OneRowPerPair /\ [][C4_AfterGrantNoDelete]_vars

\* C4, its case: a call answered already_claimed for a pair granted before.
C4_Witness ==
    \E p \in Calls :
        /\ calls[p].pc = "done"
        /\ calls[p].result = Tagged("already_claimed")
        /\ <<calls[p].user_id, calls[p].code>> \in claimed
        /\ LogCount(redeem_logs, calls[p].user_id, calls[p].code) = 1

\* C5: for every code, the number of its redeem_logs rows equals its
\* current_uses, in every reachable state.
C5_LogsEqualUses ==
    \A r \in redeem_codes : CodeLogCount(redeem_logs, r.code) = r.current_uses

\* the accounts that have completed a claim of an existing code
Claimants(code) ==
    {calls[p].user_id : p \in {q \in Calls : /\ calls[q].pc = "done"
                                             /\ calls[q].code = code
                                             /\ calls[q].result.tag # "invalid"}}

Min(a, b) == IF a <= b THEN a ELSE b

\* C6: after k distinct accounts have completed a claim of a code with
\* max_uses = N, exactly min(N, k) redeem_logs rows exist for the code.
C6_MinRows ==
    \A r \in redeem_codes :
        CodeLogCount(redeem_logs, r.code) = Min(r.max_uses, Cardinality(Claimants(r.code)))

C7_GrantCredits ==
    \A p \in Calls :
        (Finishes(p) /\ calls'[p].result.tag = "granted")
            => LET uid == calls[p].user_id
               IN  /\ HasUser(users, uid)
                   /\ HasUser(users', uid)
                   /\ UserRow(users', uid).credits
                        = UserRow(users, uid).credits + calls'[p].result.amount
                   /\ UserRow(users', uid).total_earned
                        = UserRow(users, uid).total_earned + calls'[p].result.amount

\* C7: a claim that returns Granted(amount) has raised the account's credits
\* and total_earned by exactly amount, whatever the account id.
C7_GrantApplied == [][C7_GrantCredits]_vars

C8_ValidAtCommit ==
    \A p \in Calls :
        (Finishes(p) /\ calls'[p].result.tag = "granted")
            => /\ HasCode(redeem_codes, calls[p].code)
               /\ CodeRow(redeem_codes, calls[p].code).is_active = 1
               /\ ~IsExpired(CodeRow(redeem_codes, calls[p].code), now)

\* C8: no claim returns Granted for a code that, when the write transaction
\* commits, is deactivated, deleted or past its expiry.
C8_ChecksAtomicWithWrite == [][C8_ValidAtCommit]_vars

C9_CommitOrRollback ==
    \A p \in Calls :
        Finishes(p) =>
            LET stmts == RedeemStatements(USING_SQLITE)
                all == RunStatements(Len(stmts), stmts, CurrentDB,
                                     calls[p].user_id, calls[p].code, calls[p].amount)
            IN  \/ /\ calls'[p].result = Granted(calls[p].amount)
                   /\ DB(users', redeem_codes', redeem_logs') = all
                \/ /\ calls'[p].result.tag \in {"error", "raised"}
                   /\ TablesUnchanged

\* C9: the statements of the write transaction take effect together or not at
\* all: a call leaves the transaction either with every statement applied and
\* the amount returned, or with a storage failure reported (the "error: ..."
\* string on SQLite, the exception on PostgreSQL) and the three tables as
\* they were.
C9_AllOrNothing == [][C9_CommitOrRollback]_vars

\* C9, its case: a write transaction has failed on rows that exist, and the
\* tables are as they were.
C9_Witness ==
    \E p \in Calls :
        /\ calls[p].pc = "done"
        /\ calls[p].result.tag \in {"error", "raised"}
        /\ HasUser(users, calls[p].user_id)
        /\ HasCode(redeem_codes, calls[p].code)
        /\ UserRow(users, calls[p].user_id).credits = DEFAULT_CREDITS
        /\ CodeRow(redeem_codes, calls[p].code).current_uses = 0
        /\ redeem_logs = EmptyBag

C10_OneRowPerId ==
    \A uid \in UserIds : Cardinality(UserRows(users, uid)) <= 1

C10_RowsKept == \A r \in users : r \in users'

\* C10: add_user called twice with one id, one after the other or
\* concurrently, leaves one users row for the id, holding what the first
\* successful insert wrote; the second call changes nothing.
C10_AddUserIdempotent == [] C10_OneRowPerId /\ [][C10_RowsKept]_vars

\* C10, its case: a second add_user of an id, with another username, referrer
\* and time, ran its INSERT after the first one's and was refused.
C10_Witness ==
    \E a \in Adds :
        /\ adds[a].pc = "idle"
        /\ adds[a].result = "raised"
        /\ HasUser(users, adds[a].user_id)
        /\ UserRow(users, adds[a].user_id).username # adds[a].username
        /\ UserRow(users, adds[a].user_id).referrer_id # adds[a].referrer_id
        /\ UserRow(users, adds[a].user_id).joined_date < now

\* the /start handlers of account u whose update_credits credited a referrer
Bonuses(u) == {s \in Starts : starts[s].user_id = u /\ starts[s].credited}

\* no /start handler of account u is still running
Settled(u) == \A s \in Starts : starts[s].user_id = u => starts[s].pc = "done"

\* C11: over any interleaving of /start commands, at most one handler of a
\* referred account credits the referral bonus to a referrer.
C11_BonusAtMostOnce == \A u \in UserIds : Cardinality(Bonuses(u)) <= 1

\* C12: once a /start handler of an account was abandoned between add_user and
\* update_credits and a later /start of the same account has finished, the
\* account's referrer has been credited exactly once.
C12_BonusAfterRetry ==
    \A s, t \in Starts :
        /\ s < t
        /\ starts[s].result = "abandoned"
        /\ starts[t].user_id = starts[s].user_id
        /\ Settled(starts[s].user_id)
        /\ HasUser(users, starts[s].user_id)
        /\ Truthy(UserRow(users, starts[s].user_id).referrer_id)
        /\ HasUser(users, Val(UserRow(users, starts[s].user_id).referrer_id))
        => Cardinality(Bonuses(starts[s].user_id)) = 1

\* C13: no users row names itself as referrer, and a /start ref_<own id>
\* proceeds with no referrer, creates the account with referrer_id NULL and
\* applies no bonus.
C13_SelfReferralDiscarded ==
    /\ \A r \in users : r.referrer_id # Some(r.user_id)
    /\ \A s \in Starts :
           /\ starts[s].args = Ref(starts[s].user_id)
           /\ starts[s].pc \notin {"idle", "get_user"}
           /\ starts[s].result # "existing"
           => /\ starts[s].referrer_id = NULL
              /\ starts[s].pc # "bonus"
              /\ ~starts[s].credited
              /\ starts[s].result = "created"
                    => UserRow(users, starts[s].user_id).referrer_id = NULL

C13_Witness ==
    \E s \in Starts :
        /\ starts[s].pc = "done"
        /\ starts[s].args = Ref(starts[s].user_id)
        /\ starts[s].result = "created"
        /\ \A r \in users : r.total_earned = 0

\* what update_credits(uid, d) does in a step on an existing account
C14_UpdateStep ==
    \A uid \in UserIds, d \in Deltas :
        update_credits(uid, d) /\ HasUser(users, uid)
        => LET before == UserRow(users, uid)
               after == UserRow(users', uid)
           IN  /\ HasUser(users', uid)
               /\ after.credits = before.credits + d
               /\ after.total_earned = IF d > 0 THEN before.total_earned + d
                                       ELSE before.total_earned
               /\ after = [before EXCEPT !.credits = after.credits,
                                         !.total_earned = after.total_earned]
               /\ \A r \in users : r.user_id # uid => r \in users'
               /\ Cardinality(users') = Cardinality(users)

\* C14: update_credits(A, d) on an existing account adds d to credits, adds d
\* to total_earned only when d > 0, enforces no floor, and changes no other
\* account's row.
C14_UpdateCredits == [][C14_UpdateStep]_vars

C14_Witness ==
    /\ history.ops = 1
    /\ history.last = "update_credits"
    /\ \E r \in users : r.credits < 0 /\ r.total_earned = 0

\* the amounts redeem_code_db returned to account uid
RECURSIVE SumGrants(_, _)
SumGrants(ps, uid) ==
    IF ps = {} THEN 0
    ELSE LET p == CHOOSE q \in ps : TRUE
         IN  (IF IsGranted(p) /\ calls[p].user_id = uid THEN calls[p].result.amount ELSE 0)
             + SumGrants(ps \ {p}, uid)

\* C15: whatever the interleaving of update_credits calls and redeem_code_db
\* grants on an account, its credits are its initial credits plus the sum of
\* the deltas and of the granted amounts.
C15_NoLostUpdate ==
    \A uid \in UserIds :
        HasUser(users, uid)
        => UserRow(users, uid).credits
               = DEFAULT_CREDITS + history.deltas[uid] + SumGrants(Calls, uid)

C15_Witness ==
    \E uid \in UserIds :
        /\ history.ops = 2
        /\ history.deltas[uid] = -3
        /\ \E p \in Calls : calls[p].pc = "write" /\ calls[p].user_id = uid
        /\ \E p \in Calls : IsGranted(p) /\ calls[p].user_id = uid

\* in a step, no account's total_earned decreases, and it increases only
\* together with credits
C16_EarnedStep ==
    \A r \in users : \A q \in users' :
        q.user_id = r.user_id
        => /\ q.total_earned >= r.total_earned
           /\ q.total_earned > r.total_earned => q.credits > r.credits

\* C16: total_earned of an account never decreases under update_credits,
\* bulk_update_credits, redeem_code_db (whatever the code's stored amount) and
\* reset_user_credits, and increases only when credits increases.
C16_EarnedNeverDecreases == [][C16_EarnedStep]_vars

\* how often uid occurs in the list
Count(user_ids, uid) == Cardinality({i \in DOMAIN user_ids : user_ids[i] = uid})

Range(user_ids) == {user_ids[i] : i \in DOMAIN user_ids}

\* every account of the list has the update_credits effect, once per occurrence
AllUpdated(user_ids, d) ==
    \A uid \in Range(user_ids) :
        HasUser(users, uid)
        => /\ HasUser(users', uid)
           /\ UserRow(users', uid).credits
                  = UserRow(users, uid).credits + d * Count(user_ids, uid)
           /\ UserRow(users', uid).total_earned
                  = UserRow(users, uid).total_earned
                        + (IF d > 0 THEN d * Count(user_ids, uid) ELSE 0)

NoneUpdated == users' = users

C17_BulkStep ==
    \A user_ids \in IdLists, d \in Deltas :
        \A k \in 1..(Len(user_ids) + 1) :
            bulk_update_credits(user_ids, d) \/ BulkUpdateFail(user_ids, d, k)
            => AllUpdated(user_ids, d) \/ NoneUpdated

\* C17: a bulk_update_credits call, committed or failing at any statement,
\* leaves either every account of the list updated or none.
C17_BulkAllOrNothing == [][C17_BulkStep]_vars

C17_Witness ==
    /\ history.ops = 1
    /\ \E f \in history.failures :
           f.op = "bulk_update_credits" /\ f.at >= 2 /\ f.arg # 0
    /\ \A r \in users : r.credits = DEFAULT_CREDITS /\ r.total_earned = 0

HasLogs(logs, uid) == \E c \in Codes : BagIn(LogRow(uid, c), logs)

\* what a committed delete_user(uid) does in a step
C18_DeleteStep ==
    \A uid \in UserIds :
        delete_user(uid)
        => /\ ~HasUser(users', uid)
           /\ ~HasLogs(redeem_logs', uid)
           /\ \A r \in users' : r.referrer_id # Some(uid)
           /\ \A r \in users :
                  r.user_id # uid
                  => /\ HasUser(users', r.user_id)
                     /\ UserRow(users', r.user_id)
                            = [r EXCEPT !.referrer_id = IF @ = Some(uid) THEN NULL ELSE @]

\* C18: delete_user(A) removes A's users row and A's redeem_logs rows, sets
\* referrer_id to NULL on the accounts A referred, and leaves the credits and
\* total_earned of every other account as they were.
C18_DeleteUserFrame == [][C18_DeleteStep]_vars

C18_Witness ==
    /\ ~HasUser(users, 1)
    /\ ~HasLogs(redeem_logs, 1)
    /\ HasUser(users, 2)
    /\ HasLogs(redeem_logs, 2)
    /\ UserRow(users, 2).referrer_id = NULL
    /\ UserRow(users, 2).credits = DEFAULT_CREDITS + 2
    /\ UserRow(users, 2).total_earned = 2

\* a step that removes the users row of uid leaves no redeem_logs row of uid
\* and no referrer_id = uid behind
C19_DeleteAtomicStep ==
    \A uid \in UserIds :
        HasUser(users, uid) /\ ~HasUser(users', uid)
        => /\ ~HasLogs(redeem_logs', uid)
           /\ \A r \in users' : r.referrer_id # Some(uid)

\* C19: delete_user is atomic: whether it commits or fails at any statement,
\* no state shows A's users row deleted with A's redeem_logs rows or a
\* referrer_id = A still there.
C19_DeleteUserAtomic == [][C19_DeleteAtomicStep]_vars

C19_Witness ==
    \E f \in history.failures :
        /\ f.op = "delete_user"
        /\ f.at >= 2
        /\ HasUser(users, f.arg)
        /\ HasLogs(redeem_logs, f.arg)
        /\ \E r \in users : r.referrer_id = Some(f.arg)

\* what create_redeem_code does in a step on a code that exists
C20_RedefineStep ==
    \A c \in Codes, am \in Amounts, d \in CodeDefs :
        create_redeem_code(c, am, d[1], d[2]) /\ HasCode(redeem_codes, c)
        => /\ HasCode(redeem_codes', c)
           /\ CodeRow(redeem_codes', c).current_uses = CodeRow(redeem_codes, c).current_uses
           /\ \A uid \in UserIds :
                  BagIn(LogRow(uid, c), redeem_logs) => BagIn(LogRow(uid, c), redeem_logs')

\* C20: redefining an existing code keeps its current_uses and every
\* redeem_logs row, so that its earlier claimants are still already_claimed.
C20_RedefineKeepsUses == [][C20_RedefineStep]_vars

\* the redeem_codes table each branch of create_redeem_code leaves
CreateOn(sqlite, tbl, row) ==
    IF sqlite THEN InsertOrReplaceCode(tbl, row) ELSE UpsertCode(tbl, row)

\* the database each branch of redeem_code_db commits
CommitOn(sqlite, db, uid, code, amount) ==
    RunStatements(Len(RedeemStatements(sqlite)), RedeemStatements(sqlite), db,
                  uid, code, amount)

\* C21: from one logical state, the SQLite branch and the PostgreSQL branch of
\* create_redeem_code (redefinition included) and of the write of
\* redeem_code_db leave equal logical states.  (The statements of
\* update_credits, bulk_update_credits and delete_user are the same text in
\* both branches.)
C21_BackendsAgree ==
    /\ \A c \in Codes, am \in Amounts, d \in CodeDefs :
           CreateOn(TRUE, redeem_codes, NewCode(c, am, d[1], d[2], now))
               = CreateOn(FALSE, redeem_codes, NewCode(c, am, d[1], d[2], now))
    /\ \A uid \in UserIds, c \in Codes :
           CheckCode(redeem_codes, c, now) = "ok"
           => CommitOn(TRUE, CurrentDB, uid, c, CodeRow(redeem_codes, c).amount)
                  = CommitOn(FALSE, CurrentDB, uid, c, CodeRow(redeem_codes, c).amount)

\* the step in which call p runs its checks on the code row
ReadsCode(p) == calls[p].pc = "read_code" /\ calls'[p].pc # "read_code"

PositiveExpiry(row) == row.expiry_minutes # NULL /\ Val(row.expiry_minutes) > 0

\* a claim of an active code with uses left and a positive expiry duration is
\* expired when checked after created_date + duration and goes on to its
\* grant when checked before
C22_CheckStep ==
    \A p \in Calls :
        /\ ReadsCode(p)
        /\ HasCode(redeem_codes, calls[p].code)
        /\ PositiveExpiry(CodeRow(redeem_codes, calls[p].code))
        /\ CodeRow(redeem_codes, calls[p].code).is_active = 1
        /\ CodeRow(redeem_codes, calls[p].code).current_uses
               < CodeRow(redeem_codes, calls[p].code).max_uses
        => LET row == CodeRow(redeem_codes, calls[p].code)
           IN  IF now > row.created_date + Val(row.expiry_minutes)
               THEN calls'[p].result = Tagged("expired")
               ELSE calls'[p].pc = "write"

\* no grant is committed after created_date + duration
C22_GrantStep ==
    \A p \in Calls :
        /\ Finishes(p)
        /\ calls'[p].result.tag = "granted"
        /\ HasCode(redeem_codes, calls[p].code)
        /\ PositiveExpiry(CodeRow(redeem_codes, calls[p].code))
        => now <= CodeRow(redeem_codes, calls[p].code).created_date
                      + Val(CodeRow(redeem_codes, calls[p].code).expiry_minutes)

\* C22: for a code with a positive expiry duration, a claim attempted after
\* created_date + duration returns expired, one attempted before it is
\* granted, and nothing is granted after the expiry instant.
C22_ExpiryRespected == [][C22_CheckStep /\ C22_GrantStep]_vars

\* a code without a positive duration is expired at no clock reading, for
\* redeem_code_db and for get_expired_codes alike
C23_NeverExpiredState ==
    \A r \in redeem_codes :
        ~PositiveExpiry(r)
        => \A t \in Minutes :
               /\ CheckCode(redeem_codes, r.code, t) # "expired"
               /\ r \notin get_expired_codes(redeem_codes, t)
               /\ CheckCode(redeem_codes, r.code, t) = "ok"
                      <=> r.is_active = 1 /\ r.current_uses < r.max_uses

\* a check that answers expired has read a code with a positive duration
C23_ExpiredStep ==
    \A p \in Calls :
        ReadsCode(p) /\ calls'[p].result = Tagged("expired")
        => /\ HasCode(redeem_codes, calls[p].code)
           /\ PositiveExpiry(CodeRow(redeem_codes, calls[p].code))

\* C23: a code whose expiry_minutes is NULL, zero or negative never returns
\* expired from redeem_code_db at any clock value and is never selected by
\* get_expired_codes; only exhaustion, deactivation or deletion make it
\* unclaimable.
C23_NoExpiryWithoutDuration == [] C23_NeverExpiredState /\ [][C23_ExpiredStep]_vars

C23_Witness ==
    /\ now = 2
    /\ \E r \in redeem_codes :
           /\ r.expiry_minutes \in {Some(0), Some(-1)}
           /\ r.created_date = 0
           /\ \E p \in Calls : calls[p].pc = "write" /\ calls[p].code = r.code

\* C24: after a fresh code is defined with max_uses >= 1 and an existing
\* account that has not claimed it redeems it, the call has returned the
\* code's amount, the account's credits and total_earned are higher by it,
\* and get_code_usage_stats reports current_uses = 1 and one claimant.
C24_RoundTrip ==
    calls[1].pc = "done" /\ (\A q \in Calls : q # 1 => calls[q].pc = "idle")
    => LET X == calls[1].user_id
           C == calls[1].code
           stats == get_code_usage_stats(redeem_codes, redeem_logs, C)
       IN  /\ stats # NULL
           /\ calls[1].result = Granted(Val(stats).amount)
           /\ UserRow(users, X).credits = DEFAULT_CREDITS + Val(stats).amount
           /\ UserRow(users, X).total_earned = Val(stats).amount
           /\ Val(stats).current_uses = 1
           /\ Val(stats).unique_users = 1

C24_Witness ==
    /\ calls[1].pc = "done"
    /\ calls[1].result = Granted(50)
    /\ \A q \in Calls : q # 1 => calls[q].pc = "idle"
    /\ UserRow(users, calls[1].user_id).credits = DEFAULT_CREDITS + 50

\* C25: every outcome of redeem_code_db, a fault in its write transaction
\* included, is returned as a tagged value and never raised.
C25_NeverRaises == \A p \in Calls : calls[p].result.tag # "raised"

\* C26: no code with a non-positive amount or a non-positive max_uses is ever
\* stored (defining one is rejected and leaves redeem_codes as it was).
C26_NoNonPositiveCode == \A r \in redeem_codes : r.amount > 0 /\ r.max_uses > 0

\* what reset_user_credits(uid) does in a step on an existing account
C27_ResetStep ==
    \A uid \in UserIds :
        reset_user_credits(uid) /\ HasUser(users, uid)
        => /\ HasUser(users', uid)
           /\ UserRow(users', uid).credits = 0
           /\ UserRow(users', uid) = [UserRow(users, uid) EXCEPT !.credits = 0]
           /\ \A r \in users : r.user_id # uid => r \in users'
           /\ Cardinality(users') = Cardinality(users)

\* C27: reset_user_credits(A) sets A's credits to 0 and leaves A's
\* total_earned, is_banned, referrer_id and every other account as they were.
C27_ResetCreditsFrame == [][C27_ResetStep]_vars

C27_Witness ==
    /\ history.ops = 2
    /\ history.last = "reset_user_credits"
    /\ \E r \in users : r.credits = 0 /\ r.total_earned = 3

\* a redeem_logs row appears only in the step that grants its claim and
\* disappears only in a delete_user of its account
C28_LogsStep ==
    \A uid \in UserIds, c \in Codes :
        /\ LogCount(redeem_logs', uid, c) > LogCount(redeem_logs, uid, c)
               => \E p \in Calls : /\ Finishes(p)
                                   /\ calls'[p].result.tag = "granted"
                                   /\ calls[p].user_id = uid
                                   /\ calls[p].code = c
        /\ LogCount(redeem_logs', uid, c) < LogCount(redeem_logs, uid, c)
               => delete_user(uid)

\* C28: a redeem_logs row is created only by a successful redemption and
\* removed only by delete_user of its account; create_redeem_code,
\* deactivate_code and delete_redeem_code leave the table alone.
C28_LogsLifecycle == [][C28_LogsStep]_vars

\* on PostgreSQL a code with a claim row and current_uses = 0 has been deleted
\* and defined again; its claimant was answered already_claimed afterwards
C28_Witness ==
    /\ ~USING_SQLITE
    /\ \E p, q \in Calls :
           /\ p < q
           /\ IsGranted(p)
           /\ calls[q].user_id = calls[p].user_id
           /\ calls[q].code = calls[p].code
           /\ calls[q].result = Tagged("already_claimed")
           /\ HasCode(redeem_codes, calls[p].code)
           /\ CodeRow(redeem_codes, calls[p].code).current_uses = 0
           /\ LogCount(redeem_logs, calls[p].user_id, calls[p].code) = 1

\* the positive expiry duration of the row had elapsed at clock reading t
Elapsed(row, t) ==
    PositiveExpiry(row) /\ row.created_date + Val(row.expiry_minutes) < t

\* C29: when /cleanexpired has completed and no code was defined or changed
\* meanwhile, no code is left whose positive duration had elapsed when the
\* command read the table, active or not, and every other code it read is
\* still there.
C29_CleanExpired ==
    cleaner.pc = "done" /\ redeem_codes \subseteq cleaner.codes_then
    => /\ \A r \in redeem_codes : ~Elapsed(r, cleaner.fetched_at)
       /\ \A r \in cleaner.codes_then :
              ~Elapsed(r, cleaner.fetched_at) => r \in redeem_codes

\* a non-empty string of decimal digits, the <n> of the documented forms
IsNumber(s) == s # <<>> /\ \A i \in 1..Len(s) : s[i] \in DOMAIN DigitVal

\* the totals 60*hours + minutes the input stands for when it has one of the
\* forms <n>h, <n>m, <n>h<n>m or <n>; empty when it has none of them
FormTotals(s) ==
    LET n == Len(s)
        number == SubSeq(s, 1, n - 1)
    IN  (IF n >= 2 /\ s[n] = "h" /\ IsNumber(number) THEN {60 * int(number)} ELSE {})
        \cup (IF n >= 2 /\ s[n] = "m" /\ IsNumber(number) THEN {int(number)} ELSE {})
        \cup {60 * int(SubSeq(s, 1, k - 1)) + int(SubSeq(s, k + 1, n - 1)) :
                 k \in {i \in 2..(n - 2) : /\ s[i] = "h"
                                           /\ s[n] = "m"
                                           /\ IsNumber(SubSeq(s, 1, i - 1))
                                           /\ IsNumber(SubSeq(s, i + 1, n - 1))}}
        \cup (IF IsNumber(s) THEN {int(s)} ELSE {})

C31_ClaimedFirst ==
    \A p \in Calls :
        calls[p].pc = "idle" /\ calls'[p].pc # "idle"
        => IF BagIn(LogRow(calls'[p].user_id, calls'[p].code), redeem_logs)
           THEN calls'[p].pc = "done" /\ calls'[p].result = Tagged("already_claimed")
           ELSE calls'[p].pc = "read_code"

\* the rejections on the code row, each under the absence of the earlier ones
C31_CodeChecks ==
    \A p \in Calls :
        ReadsCode(p)
        => LET code == calls[p].code
               rows == {r \in redeem_codes : r.code = code}
           IN  /\ rows = {} => calls'[p].result = Tagged("invalid")
               /\ \A r \in rows :
                      LET inactive == r.is_active = 0
                          exhausted == r.current_uses >= r.max_uses
                          expired == /\ PositiveExpiry(r)
                                     /\ now > r.created_date + Val(r.expiry_minutes)
                      IN  /\ inactive => calls'[p].result = Tagged("inactive")
                          /\ ~inactive /\ exhausted
                                 => calls'[p].result = Tagged("limit_reached")
                          /\ ~inactive /\ ~exhausted /\ expired
                                 => calls'[p].result = Tagged("expired")
                          /\ ~inactive /\ ~exhausted /\ ~expired
                                 => calls'[p].pc = "write"

\* C31: redeem_code_db rejects in the order already_claimed, invalid,
\* inactive, limit_reached, expired: a claimant of a deleted code gets
\* already_claimed, an exhausted code past its expiry gives limit_reached.
C31_Precedence == [][C31_ClaimedFirst /\ C31_CodeChecks]_vars

\* a claim of a code that is both exhausted and past its expiry has returned
\* limit_reached
C31_Witness ==
    \E p \in Calls, r \in redeem_codes :
        /\ calls[p].pc = "done"
        /\ calls[p].code = r.code
        /\ calls[p].result = Tagged("limit_reached")
        /\ r.current_uses >= r.max_uses
        /\ PositiveExpiry(r)
        /\ now > r.created_date + Val(r.expiry_minutes)

\* no lower-case letter
IsUpperCase(s) == \A i \in 1..Len(s) : s[i] \notin DOMAIN UpperOf

\* the handler has read its state and is in the redeem branch
Redeeming(h) ==
    inputs[h].pc \notin {"idle", "get_state"} /\ inputs[h].state = "waiting_for_redeem"

\* C32: every code the creation commands have stored is upper-case; a redeem
\* submission that differs from a stored code only in letter case or in
\* surrounding blanks is looked up as that code; and redeem_logs, whose keys
\* are upper-case, has at most one row per account and code whatever the case
\* of the submissions.
C32_CaseNormalized ==
    /\ \A r \in redeem_codes : IsUpperCase(r.code)
    /\ \A h \in Inputs, r \in redeem_codes :
           Redeeming(h) /\ lower(strip(inputs[h].text)) = lower(r.code)
           => inputs[h].code = r.code
    /\ \A a \in BagToSet(redeem_logs) :
           /\ IsUpperCase(a.code)
           /\ CopiesIn(a, redeem_logs) = 1
           /\ \A b \in BagToSet(redeem_logs) :
                  a.user_id = b.user_id /\ lower(a.code) = lower(b.code) => a = b

\* account 1 was granted a code under one spelling and got already_claimed
\* under another
C32_Witness ==
    \E h, g \in Inputs :
        /\ inputs[h].pc = "done" /\ inputs[h].result.tag = "granted"
        /\ inputs[g].pc = "done" /\ inputs[g].result = Tagged("already_claimed")
        /\ inputs[h].text # inputs[g].text
        /\ inputs[h].code = inputs[g].code

\* the step in which handler h runs `if not admin_level: update_credits(-1)`
Charges(h) == inputs[h].pc = "charge" /\ inputs'[h].pc = "log"

\* C33: a lookup charges only an account that had at least 1 credit when the
\* request read it, and no charge of a non-admin leaves the account's credits
\* below 0, whatever other lookups of the account are in flight.
C33_NoNegativeCharge ==
    [][\A h \in Inputs :
           Charges(h) /\ ~inputs[h].admin_level
           => /\ Val(inputs[h].credits) >= 1
              /\ \A r \in UserRows(users', inputs[h].user_id) : r.credits >= 0]_vars

\* the credits and total_earned of the rows of a users table
Balances(tbl) == {<<r.user_id, r.credits, r.total_earned>> : r \in tbl}

C35_CreditsWithinEarned ==
    (\A c \in redeem_codes : c.amount >= 0)
    => \A r \in users : r.credits <= DEFAULT_CREDITS + r.total_earned

\* account 1 has earned 5 by a grant and a gift and holds all of it
C35_Witness ==
    \E r \in users :
        /\ r.user_id = 1
        /\ r.total_earned = 5
        /\ r.credits = DEFAULT_CREDITS + r.total_earned
        /\ \E p \in Calls : IsGranted(p) /\ calls[p].user_id = 1

\* C36: when a redeem submission has been granted and answered, nothing else
\* having touched the account, the new_balance of the answer is the credits
\* the account's row holds.
C36_NewBalance ==
    \A h \in Inputs :
        /\ inputs[h].pc \in {"clear", "done"}
        /\ inputs[h].result.tag = "granted"
        /\ HasUser(users, inputs[h].user_id)
        => inputs[h].new_balance = UserRow(users, inputs[h].user_id).credits

\* the branch of handle_inputs that deletes, resets or gifts runs
DestructiveBranch(h) == inputs[h].pc = "admin_op" /\ inputs'[h].pc = "clear"

\* C37: whenever a delete-user, reset-credits or bulk-gift branch of
\* handle_inputs runs, its sender holds an admin level at that moment,
\* whatever /removeadmin did since the command that set the state.
C37_AdminAtBranch ==
    [][\A h \in Inputs :
          DestructiveBranch(h) => is_user_admin(admins, inputs[h].user_id)]_vars

\* the grant of a redeem submission, or the deduction of a lookup, commits
Commits(h) ==
    \/ inputs[h].pc = "write" /\ inputs'[h].pc = "get_user"
    \/ Charges(h) /\ ~inputs[h].admin_level

\* C38: a grant or a lookup charge is committed only for an account whose
\* is_banned flag is not set when it commits, also when the ban completed
\* after the handler's own ban check.
C38_NoCommitWhenBanned ==
    [][\A h \in Inputs :
          Commits(h) => ~is_user_banned(users, inputs[h].user_id)]_vars

\* /cleanexpired removes the row of one code of its list
Deletes(c) ==
    /\ cleaner.pc = "deleting"
    /\ c \in cleaner.expired
    /\ cleaner'.expired = cleaner.expired \ {c}
    /\ HasCode(redeem_codes, c)
    /\ ~HasCode(redeem_codes', c)

\* C39: every row /cleanexpired deletes is expired when its deletion runs; a
\* code defined again since the list was read is not deleted.
C39_DeletesExpiredOnly ==
    [][\A c \in CleanCodes :
          Deletes(c) => Elapsed(CodeRow(redeem_codes, c), now)]_vars

\* C40: a handle_inputs invocation that found the sender in a single-step
\* state leaves the sender's FSM state cleared when it ends, on every path.
C40_StateCleared ==
    [][\A h \in Inputs :
          /\ inputs[h].pc # "done"
          /\ inputs'[h].pc = "done"
          /\ inputs[h].state \in AdminStates \cup UserStates
          => fsm'[inputs[h].user_id] = "none"]_vars
====
